---- MODULE Spec2Model ----
(***************************************************************************)
(* Multipack inventory app: the orders/paid and orders/cancelled webhook   *)
(* handlers, the ProcessedOrder idempotency ledger, the multipack          *)
(* reconciler (calculateMultipackInventory) and the bundle calculator.     *)
(*                                                                         *)
(* One shop.  A webhook delivery is a run; runs interleave at the awaits   *)
(* of the handlers (store calls and Admin GraphQL calls).                  *)
(***************************************************************************)
EXTENDS Integers, Sequences, FiniteSets, TLC

VARIABLES
  marker,      \* ProcessedOrder rows of the shop: the set of order ids that have one
  qty,         \* remote "available" quantity per <<inventory item, location>>
  rules,       \* VariantRule rows of the shop: variantId -> rule, or NoRule
  locations,   \* the shop's locations as the Admin API lists them: [id, isActive]
  payload,     \* line_items of each order's webhook payload
  runs,        \* every webhook delivery so far, with its position and locals
  lastBatch,   \* the quantities of the set-quantities mutations issued by the last step
  calc         \* input and output of one bundle calculation (SpecBundle only)

vars == <<marker, qty, rules, locations, payload, runs, lastBatch, calc>>

----------------------------------------------------------------------------
(* Bounds of the model *)

MaxDeliveries == 3      \* webhook deliveries per behaviour
MaxConcurrent == 2      \* deliveries in flight at once
MaxMappings == 2        \* mappings per rule in the bundle calculation inputs
MaxMultiplier == 3      \* largest multiplier in the bundle calculation inputs
MaxPassPairs == 4       \* (rule, location) pairs of one reconcile pass that a fault can name
MaxPasses == 2          \* inventory_levels/update deliveries per behaviour

Null == "null"
NoRule == [variantId |-> Null]

Orders == {"o1"}
Variants == {"V", "S", "M", "P", "A", "B"}
Locs == {"L1", "L2"}

(* Initial stock of the model: every cell at 5, or low stock with a negative *)
(* (oversold) source variant A                                               *)
StockProfiles == {"high", "low"}
InitialQuantity(profile, inventoryItemId) ==
  IF profile = "high" THEN 5
  ELSE IF inventoryItemId = "iA" THEN -1
  ELSE 1

Max(a, b) == IF a >= b THEN a ELSE b

----------------------------------------------------------------------------
(* Remote catalogue: productVariant(id).inventoryItem.id *)

InventoryItemOf(variantId) == IF variantId \in Variants THEN "i" \o variantId ELSE Null

Items == {InventoryItemOf(v) : v \in Variants}

Cells == Items \X Locs

(* JSON.parse of a stored text column: a stored text either parses to an     *)
(* array or makes JSON.parse throw.                                          *)
NullText == [text |-> "null", arr |-> <<>>]
Json(arr) == [text |-> "json", arr |-> arr]
BadJson == [text |-> "garbage", arr |-> <<>>]
ParseOk(stored) == stored.text = "json"
ParseValue(stored) == stored.arr

Mapping(t, m) == [targetVariantId |-> t, multiplier |-> m]

(* The shop's VariantRule rows *)
RuleTable ==
  [v \in Variants |->
     CASE v = "V" -> [variantId |-> "V",
                      deductionMappings |-> Json(<<Mapping("A", 2), Mapping("B", 1)>>),
                      calculateInventoryForSelfMapping |-> TRUE,
                      type |-> Null, multiplier |-> 0, varietyPackFlavorIds |-> NullText]
       [] v = "S" -> [variantId |-> "S",
                      deductionMappings |-> Json(<<Mapping("S", 3)>>),
                      calculateInventoryForSelfMapping |-> FALSE,
                      type |-> Null, multiplier |-> 0, varietyPackFlavorIds |-> NullText]
       [] v = "M" -> [variantId |-> "M",
                      deductionMappings |-> NullText,
                      calculateInventoryForSelfMapping |-> FALSE,
                      type |-> "multiplier", multiplier |-> 3, varietyPackFlavorIds |-> NullText]
       [] v = "P" -> [variantId |-> "P",
                      deductionMappings |-> NullText,
                      calculateInventoryForSelfMapping |-> FALSE,
                      type |-> "variety_pack", multiplier |-> 0,
                      varietyPackFlavorIds |-> Json(<<"A", "B">>)]
       [] OTHER -> NoRule]

(* db.variantRule.findMany returns rows in this order *)
RuleOrder == <<"V", "S", "M", "P">>

LineItem(v, q) == [variant_id |-> v, quantity |-> q, variant_inventory_management |-> "shopify"]

Payloads ==
  { <<>>,
    <<LineItem("V", 1), LineItem("A", 1)>>,
    <<LineItem("S", 1), LineItem("M", 2)>>,
    <<LineItem("P", 1), LineItem("P", 1)>> }

LocationLists ==
  { <<[id |-> "L1", isActive |-> TRUE], [id |-> "L2", isActive |-> TRUE]>>,
    <<[id |-> "L1", isActive |-> FALSE], [id |-> "L2", isActive |-> TRUE]>> }

Adj(item, loc, delta) == [inventoryItemId |-> item, locationId |-> loc, delta |-> delta]

----------------------------------------------------------------------------
(* The productVariant(id) { inventoryItem { id } } lookups of the order      *)
(* handlers.  A lookup answers an inventory item id, answers none (Null),    *)
(* or the call throws.                                                       *)

Throws == "throws"
Catalogue == [v \in Variants |-> InventoryItemOf(v)]
Answer(lookup, variantId) == IF variantId \in DOMAIN lookup THEN lookup[variantId] ELSE Null

(* the position of the first id whose lookup throws, 0 when none does *)
RECURSIVE FirstThrow(_, _, _)
FirstThrow(lookup, ids, k) ==
  IF k > Len(ids) THEN 0
  ELSE IF Answer(lookup, ids[k]) = Throws THEN k
  ELSE FirstThrow(lookup, ids, k + 1)

(* the elements a loop has handled when the lookup of element t threw *)
HandledBefore(xs, t) == IF t = 0 THEN xs ELSE SubSeq(xs, 1, t - 1)

TargetIds(mappings) == [k \in 1..Len(mappings) |-> mappings[k].targetVariantId]

----------------------------------------------------------------------------
(* orders/paid: the deltas of one line item *)

(* rule.multiplier || 3 : a null or 0 multiplier reads as 3 *)
MultiplierAsStored(m) == m
MultiplierOrDefault(m) == IF m = 0 THEN 3 ELSE m

(* delta: lineItem.quantity, the add-back on the ordered variant after the   *)
(* mapping loop                                                              *)
AddBackNothing(quantity) == 0
AddBack(quantity) == quantity

(* const delta = -(lineItem.quantity * mapping.multiplier) *)
MappingDeltaUnscaled(quantity, multiplier) == -quantity
MappingDelta(quantity, multiplier) == -(quantity * multiplier)

RECURSIVE PaidMappingAdjustments(_, _, _, _, _)
PaidMappingAdjustments(mappings, k, lineItem, locationId, lookup) ==
  IF k > Len(mappings) THEN <<>>
  ELSE LET targetInventoryItemId == Answer(lookup, mappings[k].targetVariantId)
           delta == MappingDelta(lineItem.quantity, mappings[k].multiplier)
       IN (IF targetInventoryItemId # Null
             THEN <<Adj(targetInventoryItemId, locationId, delta)>>
             ELSE <<>>)
          \o PaidMappingAdjustments(mappings, k + 1, lineItem, locationId, lookup)

RECURSIVE PaidFlavorAdjustments(_, _, _, _, _)
PaidFlavorAdjustments(flavorIds, k, lineItem, locationId, lookup) ==
  IF k > Len(flavorIds) THEN <<>>
  ELSE LET flavorInventoryItemId == Answer(lookup, flavorIds[k])
       IN (IF flavorInventoryItemId # Null
             THEN <<Adj(flavorInventoryItemId, locationId, -lineItem.quantity)>>
             ELSE <<>>)
          \o PaidFlavorAdjustments(flavorIds, k + 1, lineItem, locationId, lookup)

(* the legacy branches; the try around the flavor loop catches a throwing    *)
(* lookup as it catches a failing JSON.parse: the flavors before it keep     *)
(* their deltas and the add-back is not pushed                               *)
PaidLegacyAdjustments(rule, inventoryItemId, lineItem, locationId, lookup) ==
  IF rule.type = "multiplier"
    THEN LET additionalDeduction == MultiplierOrDefault(rule.multiplier) - 1
         IN <<Adj(inventoryItemId, locationId, -(lineItem.quantity * additionalDeduction))>>
  ELSE IF rule.type = "variety_pack" /\ rule.varietyPackFlavorIds # NullText
    THEN IF ParseOk(rule.varietyPackFlavorIds)
           THEN LET flavorIds == ParseValue(rule.varietyPackFlavorIds)
                    t == FirstThrow(lookup, flavorIds, 1)
                IN PaidFlavorAdjustments(HandledBefore(flavorIds, t), 1,
                                         lineItem, locationId, lookup)
                   \o (IF t = 0 THEN <<Adj(inventoryItemId, locationId, lineItem.quantity)>>
                       ELSE <<>>)
           ELSE <<>>
  ELSE <<>>

(* does the catch of the deductionMappings branch run: JSON.parse failed,    *)
(* or a target lookup inside the try threw                                   *)
MappingsBranchCaught(rule, lookup) ==
  \/ ~ParseOk(rule.deductionMappings)
  \/ /\ Len(ParseValue(rule.deductionMappings)) > 0
     /\ FirstThrow(lookup, TargetIds(ParseValue(rule.deductionMappings)), 1) # 0

(* if (lineItem.variant_inventory_management !== "shopify") continue *)
IsShopifyManagedAlways(lineItem) == TRUE
IsShopifyManaged(lineItem) == lineItem.variant_inventory_management = "shopify"

(* the lookup of the ordered variant throws: nothing catches it short of     *)
(* the handler's outer catch                                                 *)
LineItemThrows(lineItem, rulesMap, lookup) ==
  /\ IsShopifyManaged(lineItem)
  /\ rulesMap[lineItem.variant_id].variantId # Null
  /\ Answer(lookup, lineItem.variant_id) = Throws

PaidLineItemAdjustments(lineItem, locationId, rulesMap, lookup) ==
  IF ~IsShopifyManaged(lineItem) THEN <<>>
  ELSE LET rule == rulesMap[lineItem.variant_id]
           inventoryItemId == Answer(lookup, lineItem.variant_id)
       IN IF rule.variantId = Null THEN <<>>
          ELSE IF inventoryItemId = Null \/ inventoryItemId = Throws THEN <<>>
          ELSE IF rule.deductionMappings # NullText
            THEN IF ParseOk(rule.deductionMappings)
                   THEN LET mappings == ParseValue(rule.deductionMappings)
                            t == FirstThrow(lookup, TargetIds(mappings), 1)
                        IN IF Len(mappings) > 0
                             THEN PaidMappingAdjustments(HandledBefore(mappings, t), 1,
                                                         lineItem, locationId, lookup)
                                  \o (IF MappingsBranchCaught(rule, lookup)
                                        THEN PaidLegacyAdjustments(rule, inventoryItemId,
                                                                   lineItem, locationId, lookup)
                                        ELSE <<Adj(inventoryItemId, locationId,
                                                   AddBack(lineItem.quantity))>>)
                             ELSE <<>>
                   ELSE PaidLegacyAdjustments(rule, inventoryItemId, lineItem, locationId, lookup)
          ELSE PaidLegacyAdjustments(rule, inventoryItemId, lineItem, locationId, lookup)

RECURSIVE PaidInventoryAdjustments(_, _, _, _, _)
PaidInventoryAdjustments(lineItems, k, locationId, rulesMap, lookup) ==
  IF k > Len(lineItems) THEN <<>>
  ELSE PaidLineItemAdjustments(lineItems[k], locationId, rulesMap, lookup)
       \o PaidInventoryAdjustments(lineItems, k + 1, locationId, rulesMap, lookup)

----------------------------------------------------------------------------
(* orders/cancelled: the reversal deltas of one line item *)

RECURSIVE CancelledMappingAdjustments(_, _, _, _, _)
CancelledMappingAdjustments(mappings, k, lineItem, locationId, lookup) ==
  IF k > Len(mappings) THEN <<>>
  ELSE LET targetInventoryItemId == Answer(lookup, mappings[k].targetVariantId)
           delta == lineItem.quantity * mappings[k].multiplier
       IN (IF targetInventoryItemId # Null
             THEN <<Adj(targetInventoryItemId, locationId, delta)>>
             ELSE <<>>)
          \o CancelledMappingAdjustments(mappings, k + 1, lineItem, locationId, lookup)

RECURSIVE CancelledFlavorAdjustments(_, _, _, _, _)
CancelledFlavorAdjustments(flavorIds, k, lineItem, locationId, lookup) ==
  IF k > Len(flavorIds) THEN <<>>
  ELSE LET flavorInventoryItemId == Answer(lookup, flavorIds[k])
       IN (IF flavorInventoryItemId # Null
             THEN <<Adj(flavorInventoryItemId, locationId, lineItem.quantity)>>
             ELSE <<>>)
          \o CancelledFlavorAdjustments(flavorIds, k + 1, lineItem, locationId, lookup)

CancelledLegacyAdjustmentsAsPaid(rule, inventoryItemId, lineItem, locationId, lookup) ==
  PaidLegacyAdjustments(rule, inventoryItemId, lineItem, locationId, lookup)

CancelledLegacyAdjustments(rule, inventoryItemId, lineItem, locationId, lookup) ==
  IF rule.type = "multiplier"
    THEN LET additionalDeduction == MultiplierOrDefault(rule.multiplier) - 1
         IN <<Adj(inventoryItemId, locationId, lineItem.quantity * additionalDeduction)>>
  ELSE IF rule.type = "variety_pack" /\ rule.varietyPackFlavorIds # NullText
    THEN IF ParseOk(rule.varietyPackFlavorIds)
           THEN LET flavorIds == ParseValue(rule.varietyPackFlavorIds)
                    t == FirstThrow(lookup, flavorIds, 1)
                IN CancelledFlavorAdjustments(HandledBefore(flavorIds, t), 1,
                                              lineItem, locationId, lookup)
                   \o (IF t = 0 THEN <<Adj(inventoryItemId, locationId, -lineItem.quantity)>>
                       ELSE <<>>)
           ELSE <<>>
  ELSE <<>>

CancelledLineItemAdjustmentsAsPaid(lineItem, locationId, rulesMap, lookup) ==
  PaidLineItemAdjustments(lineItem, locationId, rulesMap, lookup)

CancelledLineItemAdjustments(lineItem, locationId, rulesMap, lookup) ==
  IF ~IsShopifyManaged(lineItem) THEN <<>>
  ELSE LET rule == rulesMap[lineItem.variant_id]
           inventoryItemId == Answer(lookup, lineItem.variant_id)
       IN IF rule.variantId = Null THEN <<>>
          ELSE IF inventoryItemId = Null \/ inventoryItemId = Throws THEN <<>>
          ELSE IF rule.deductionMappings # NullText
            THEN IF ParseOk(rule.deductionMappings)
                   THEN LET mappings == ParseValue(rule.deductionMappings)
                            t == FirstThrow(lookup, TargetIds(mappings), 1)
                        IN IF Len(mappings) > 0
                             THEN CancelledMappingAdjustments(HandledBefore(mappings, t), 1,
                                                              lineItem, locationId, lookup)
                                  \o (IF MappingsBranchCaught(rule, lookup)
                                        THEN CancelledLegacyAdjustments(rule, inventoryItemId,
                                                                        lineItem, locationId,
                                                                        lookup)
                                        ELSE <<Adj(inventoryItemId, locationId,
                                                   -lineItem.quantity)>>)
                             ELSE <<>>
                   ELSE CancelledLegacyAdjustments(rule, inventoryItemId, lineItem, locationId,
                                                   lookup)
          ELSE CancelledLegacyAdjustments(rule, inventoryItemId, lineItem, locationId, lookup)

RECURSIVE CancelledInventoryAdjustments(_, _, _, _, _)
CancelledInventoryAdjustments(lineItems, k, locationId, rulesMap, lookup) ==
  IF k > Len(lineItems) THEN <<>>
  ELSE CancelledLineItemAdjustments(lineItems[k], locationId, rulesMap, lookup)
       \o CancelledInventoryAdjustments(lineItems, k + 1, locationId, rulesMap, lookup)

----------------------------------------------------------------------------
(* Both handlers: consolidation by inventoryItemId:locationId, then the      *)
(* quantities of the set-quantities input                                    *)

(* consolidatedAdjustments.get(key): the position of the entry with adj's key, or 0 *)
RECURSIVE KeyIndex(_, _, _)
KeyIndex(acc, adj, k) ==
  IF k > Len(acc) THEN 0
  ELSE IF acc[k].inventoryItemId = adj.inventoryItemId /\ acc[k].locationId = adj.locationId
    THEN k
  ELSE KeyIndex(acc, adj, k + 1)

ConsolidateStepAppend(acc, adj) == Append(acc, adj)

ConsolidateStep(acc, adj) ==
  LET existing == KeyIndex(acc, adj, 1)
  IN IF existing # 0
       THEN [acc EXCEPT ![existing].delta = @ + adj.delta]
       ELSE Append(acc, adj)

RECURSIVE ConsolidateFrom(_, _, _)
ConsolidateFrom(inventoryAdjustments, k, acc) ==
  IF k > Len(inventoryAdjustments) THEN acc
  ELSE ConsolidateFrom(inventoryAdjustments, k + 1,
                       ConsolidateStep(acc, inventoryAdjustments[k]))

(* uniqueAdjustments = Array.from(consolidatedAdjustments.values()) *)
UniqueAdjustments(inventoryAdjustments) == ConsolidateFrom(inventoryAdjustments, 1, <<>>)

NewQuantityNoClamp(currentQuantity, delta) == currentQuantity + delta
NewQuantity(currentQuantity, delta) == Max(0, currentQuantity + delta)

(* the getInventoryLevel reads and the entries built from them *)
QuantityUpdates(uniqueAdjustments, q) ==
  [k \in 1..Len(uniqueAdjustments) |->
     LET adj == uniqueAdjustments[k]
         currentQuantity == q[<<adj.inventoryItemId, adj.locationId>>]
     IN [inventoryItemId |-> adj.inventoryItemId,
         locationId |-> adj.locationId,
         quantity |-> NewQuantity(currentQuantity, adj.delta),
         compareQuantity |-> currentQuantity]]

(* inventorySetQuantities on the remote store: every entry's compareQuantity *)
(* must equal the quantity on hand, or the mutation answers userErrors and   *)
(* changes nothing                                                           *)
CompareMatches(quantities, q) ==
  \A k \in 1..Len(quantities) :
     q[<<quantities[k].inventoryItemId, quantities[k].locationId>>]
       = quantities[k].compareQuantity

RECURSIVE SetQuantities(_, _, _)
SetQuantities(quantities, k, q) ==
  IF k > Len(quantities) THEN q
  ELSE SetQuantities(quantities, k + 1,
         [q EXCEPT ![<<quantities[k].inventoryItemId, quantities[k].locationId>>]
                      = quantities[k].quantity])

----------------------------------------------------------------------------
(* inventory-calculation: bundle calculator and reconciler *)

(* getAllActiveLocations: the listed locations with isActive, in list order *)
RECURSIVE ActiveLocationsFrom(_, _)
ActiveLocationsFrom(locs, k) ==
  IF k > Len(locs) THEN <<>>
  ELSE (IF locs[k].isActive THEN <<locs[k].id>> ELSE <<>>) \o ActiveLocationsFrom(locs, k + 1)

getAllLocations(locs) == [k \in 1..Len(locs) |-> locs[k].id]
getAllActiveLocations(locs) == ActiveLocationsFrom(locs, 1)

(* getVariantInventory: 0 when the variant has no inventory item *)
getVariantInventory(variantId, locationId, q) ==
  LET inventoryItemId == InventoryItemOf(variantId)
  IN IF inventoryItemId = Null THEN 0 ELSE q[<<inventoryItemId, locationId>>]

(* Math.floor(availableQuantity / multiplier), multiplier >= 1 *)
BundlesFromTargetCeil(availableQuantity, multiplier) ==
  (availableQuantity + multiplier - 1) \div multiplier
BundlesFromTarget(availableQuantity, multiplier) == availableQuantity \div multiplier

RECURSIVE BundleCounts(_, _, _, _)
BundleCounts(deductionMappings, k, locationId, q) ==
  IF k > Len(deductionMappings) THEN <<>>
  ELSE <<BundlesFromTarget(
           getVariantInventory(deductionMappings[k].targetVariantId, locationId, q),
           deductionMappings[k].multiplier)>>
       \o BundleCounts(deductionMappings, k + 1, locationId, q)

(* Math.min(...bundleCounts) of a non-empty array *)
RECURSIVE MathMin(_, _)
MathMin(xs, k) ==
  IF k = Len(xs) THEN xs[k]
  ELSE LET rest == MathMin(xs, k + 1) IN IF xs[k] <= rest THEN xs[k] ELSE rest

calculateBundlesForVariant(deductionMappings, locationId, q) ==
  LET bundleCounts == BundleCounts(deductionMappings, 1, locationId, q)
  IN IF Len(bundleCounts) = 0 THEN 0 ELSE MathMin(bundleCounts, 1)

ReconcileQuantityNoClamp(quantity) == quantity
(* quantity: Math.max(0, quantity) in updateVariantInventory *)
ReconcileQuantity(quantity) == Max(0, quantity)

(* updateVariantInventory: the single entry it submits; its compareQuantity  *)
(* is read in the same call                                                  *)
UpdateEntry(variantId, locationId, quantity, q) ==
  LET inventoryItemId == InventoryItemOf(variantId)
  IN [inventoryItemId |-> inventoryItemId,
      locationId |-> locationId,
      quantity |-> ReconcileQuantity(quantity),
      compareQuantity |-> q[<<inventoryItemId, locationId>>]]

hasAnySelfMappingNever(rule, deductionMappings) == FALSE
hasAnySelfMapping(rule, deductionMappings) ==
  \E k \in 1..Len(deductionMappings) : deductionMappings[k].targetVariantId = rule.variantId

(* if (!rule.calculateInventoryForSelfMapping) continue *)
ToggleEnabledAlways(rule) == TRUE
ToggleEnabled(rule) == rule.calculateInventoryForSelfMapping

(* a rule the pass computes: deductionMappings not null, parses to a         *)
(* non-empty array, no mapping to itself, toggle on                          *)
RuleIsComputed(rule) ==
  /\ rule.variantId # Null
  /\ rule.deductionMappings # NullText
  /\ ParseOk(rule.deductionMappings)
  /\ Len(ParseValue(rule.deductionMappings)) > 0
  /\ ~hasAnySelfMapping(rule, ParseValue(rule.deductionMappings))
  /\ ToggleEnabled(rule)

(* the <<variantId, locationId>> pairs of one pass, in processing order *)
RECURSIVE PairsOfRule(_, _, _)
PairsOfRule(variantId, locs, k) ==
  IF k > Len(locs) THEN <<>>
  ELSE <<[variantId |-> variantId, locationId |-> locs[k]]>> \o PairsOfRule(variantId, locs, k + 1)

RECURSIVE ReconcilePairs(_, _, _)
ReconcilePairs(rulesMap, locs, k) ==
  IF k > Len(RuleOrder) THEN <<>>
  ELSE (IF RuleIsComputed(rulesMap[RuleOrder[k]])
          THEN PairsOfRule(RuleOrder[k], locs, 1)
          ELSE <<>>)
       \o ReconcilePairs(rulesMap, locs, k + 1)

(* What can go wrong in one pass: the rule-store read or the location query  *)
(* throws, or for the pairs named (by position in processing order) every    *)
(* availability read fails, or the set-quantities mutation is rejected       *)
(* (userErrors) or throws.  A plan names one pair or all of them.           *)
FaultKinds == {"none", "rules", "locations", "read", "rejected", "throw"}
PairFaultKinds == {"read", "rejected", "throw"}
NoFaults == [kind |-> "none", pairs |-> {}]
PassFaultPlans ==
  {NoFaults, [kind |-> "rules", pairs |-> {}], [kind |-> "locations", pairs |-> {}]}
  \cup {[kind |-> f, pairs |-> ps] :
          f \in PairFaultKinds,
          ps \in {{k} : k \in 1..MaxPassPairs} \cup {1..MaxPassPairs}}

(* the plans with a fault on every pair or on none *)
CoarseFaultPlans == {f \in PassFaultPlans : f.pairs \in {{}, 1..MaxPassPairs}}

FaultAt(faults, k, kind) == faults.kind = kind /\ k \in faults.pairs

(* getVariantInventory answers 0 for every target when its reads fail *)
NothingAvailable == [c \in Cells |-> 0]

(* the catch blocks of the location loop and the false result of             *)
(* updateVariantInventory are logged and the loop goes on                    *)
ContinuesAfterPairFailureNever(outcome) == FALSE
ContinuesAfterPairFailure(outcome) == TRUE

(* one pass: for each pair in order, compute the bundle count from the live  *)
(* quantities and write it; st = [q, sent, attempted]                        *)
RECURSIVE ReconcileFrom(_, _, _, _, _)
ReconcileFrom(faults, pairs, k, rulesMap, st) ==
  IF k > Len(pairs) THEN st
  ELSE LET rule == rulesMap[pairs[k].variantId]
           seen == IF FaultAt(faults, k, "read") THEN NothingAvailable ELSE st.q
           bundleCount == calculateBundlesForVariant(ParseValue(rule.deductionMappings),
                                                     pairs[k].locationId, seen)
           entry == UpdateEntry(rule.variantId, pairs[k].locationId, bundleCount, st.q)
           outcome == IF entry.inventoryItemId = Null THEN "noitem"
                      ELSE IF FaultAt(faults, k, "rejected") THEN "rejected"
                      ELSE IF FaultAt(faults, k, "throw") THEN "throw"
                      ELSE "ok"
           after == [q |-> IF outcome = "ok" THEN SetQuantities(<<entry>>, 1, st.q) ELSE st.q,
                     sent |-> IF outcome = "ok" THEN Append(st.sent, entry) ELSE st.sent,
                     attempted |-> Append(st.attempted, pairs[k])]
       IN IF outcome # "ok" /\ ~ContinuesAfterPairFailure(outcome)
            THEN after
            ELSE ReconcileFrom(faults, pairs, k + 1, rulesMap, after)

(* the outer catch of calculateMultipackInventory logs and does not rethrow *)
CatchAtBoundaryRethrows(threw) == IF threw THEN "threw" ELSE "returned"
CatchAtBoundary(threw) == "returned"

calculateMultipackInventory(faults, rulesMap, locs, q) ==
  LET start == [q |-> q, sent |-> <<>>, attempted |-> <<>>]
      threw == faults.kind \in {"rules", "locations"}
      st == IF threw THEN start
            ELSE ReconcileFrom(faults, ReconcilePairs(rulesMap, getAllActiveLocations(locs), 1),
                               1, rulesMap, start)
  IN [q |-> st.q, sent |-> st.sent, attempted |-> st.attempted,
      result |-> CatchAtBoundary(threw)]

----------------------------------------------------------------------------
(* Webhook deliveries *)

NoCalc == [mappings |-> <<>>, locationId |-> Null, done |-> FALSE, out |-> 0]

(* pre: the quantities when the delivery arrived, kept for deliveries that   *)
(* run alone                                                                 *)
NoSnapshot == [c \in Cells |-> 0]

(* afterPaid: a paid batch of the order had been applied when the delivery   *)
(* arrived; markerAtArrival: the order's marker existed when an orders/paid   *)
(* delivery arrived                                                          *)
PaidApplied(orderId) ==
  \E i \in 1..Len(runs) :
     runs[i].kind = "paid" /\ runs[i].orderId = orderId /\ runs[i].applied

NewRun(kind, orderId, q) ==
  [kind |-> kind, orderId |-> orderId, pc |-> "lookup", status |-> 0,
   afterPaid |-> PaidApplied(orderId),
   markerAtArrival |-> kind # "cancelled" /\ orderId \in marker,
   locationId |-> Null, uniq |-> <<>>, upd |-> <<>>,
   found |-> FALSE, inserted |-> FALSE, submitted |-> FALSE, applied |-> FALSE,
   deleted |-> FALSE, writes |-> 0, pre |-> q,
   passes |-> 0, passFailed |-> FALSE]

Active(r) == r.pc # "done"
ActiveRuns == {i \in 1..Len(runs) : Active(runs[i])}

Finish(r, status) == [r EXCEPT !.pc = "done", !.status = status]

Init ==
  /\ marker = {}
  /\ \E profile \in StockProfiles : qty = [c \in Cells |-> InitialQuantity(profile, c[1])]
  /\ rules = RuleTable
  /\ locations \in LocationLists
  /\ payload \in [Orders -> Payloads]
  /\ runs = <<>>
  /\ lastBatch = <<>>
  /\ calc = NoCalc

(* a delivery of topic kind for orderId arrives (session present, id present) *)
Deliver(kind, orderId) ==
  /\ Len(runs) < MaxDeliveries
  /\ Cardinality(ActiveRuns) < MaxConcurrent
  /\ runs' = Append(runs, NewRun(kind, orderId, NoSnapshot))
  /\ UNCHANGED <<marker, qty, rules, locations, payload, lastBatch, calc>>

(* the same, with every earlier delivery finished *)
DeliverAlone(kind, orderId) ==
  /\ Len(runs) < MaxDeliveries
  /\ ActiveRuns = {}
  /\ runs' = Append(runs, NewRun(kind, orderId, qty))
  /\ UNCHANGED <<marker, qty, rules, locations, payload, lastBatch, calc>>

(* fulfillmentOrder.assignedLocation.location.id, else the first listed     *)
(* location (locations(first: 1)) when it is active                         *)
ResolveLocation(assigned, locs) ==
  IF assigned # Null THEN assigned
  ELSE IF Len(locs) > 0 /\ locs[1].isActive THEN locs[1].id
  ELSE Null

(* db.processedOrder.findUnique({where: {shop_orderId}}) *)
FindUniqueNever(orderId, rows) == FALSE
FindUnique(orderId, rows) == orderId \in rows

(* orders/paid: the idempotency check *)
PaidLookup(i) ==
  /\ i <= Len(runs)
  /\ runs[i].kind = "paid" /\ runs[i].pc = "lookup"
  /\ runs' = [runs EXCEPT ![i] =
                IF FindUnique(runs[i].orderId, marker)
                  THEN Finish([@ EXCEPT !.found = TRUE], 200)
                  ELSE [@ EXCEPT !.pc = "create"]]
  /\ UNCHANGED <<marker, qty, rules, locations, payload, lastBatch, calc>>

(* the unique index ProcessedOrder_shop_orderId_key: an insert of an        *)
(* existing (shop, orderId) is refused                                      *)
InsertConflictsNever(orderId, rows) == FALSE
InsertConflicts(orderId, rows) == orderId \in rows

(* orders/paid: db.processedOrder.create, then the line_items check *)
PaidCreate(i) ==
  /\ i <= Len(runs)
  /\ runs[i].kind = "paid" /\ runs[i].pc = "create"
  /\ IF InsertConflicts(runs[i].orderId, marker)
       THEN /\ runs' = [runs EXCEPT ![i] = Finish(@, 500)]
            /\ UNCHANGED marker
       ELSE /\ marker' = marker \cup {runs[i].orderId}
            /\ runs' = [runs EXCEPT ![i] =
                          IF Len(payload[runs[i].orderId]) = 0
                            THEN Finish([@ EXCEPT !.inserted = TRUE], 200)
                            ELSE [@ EXCEPT !.inserted = TRUE, !.pc = "prepare"]]
  /\ UNCHANGED <<qty, rules, locations, payload, lastBatch, calc>>

(* if (!locationId) { log; return new Response() } *)
ResponseWithoutLocationError(locationId) == 500
ResponseWithoutLocation(locationId) == 200

(* orders/paid: rules, order query, location, line items, consolidation,    *)
(* current quantities                                                       *)
PaidPrepare(i) ==
  /\ i <= Len(runs)
  /\ runs[i].kind = "paid" /\ runs[i].pc = "prepare"
  /\ \E assigned \in Locs \cup {Null} :
        LET locationId == ResolveLocation(assigned, locations)
            inventoryAdjustments ==
              PaidInventoryAdjustments(payload[runs[i].orderId], 1, locationId, rules, Catalogue)
            uniqueAdjustments == UniqueAdjustments(inventoryAdjustments)
        IN runs' = [runs EXCEPT ![i] =
                      IF locationId = Null
                        THEN Finish(@, ResponseWithoutLocation(locationId))
                      ELSE IF Len(inventoryAdjustments) = 0
                        THEN [@ EXCEPT !.locationId = locationId, !.pc = "reconcile"]
                      ELSE [@ EXCEPT !.locationId = locationId,
                                     !.uniq = uniqueAdjustments,
                                     !.upd = QuantityUpdates(uniqueAdjustments, qty),
                                     !.pc = "submit"]]
  /\ UNCHANGED <<marker, qty, rules, locations, payload, lastBatch, calc>>

(* orders/paid: the inventorySetQuantities mutation.  The remote store      *)
(* applies it, answers userErrors, or the call throws                       *)
PaidSubmitOutcome(i, outcome) ==
  /\ i <= Len(runs)
  /\ runs[i].kind = "paid" /\ runs[i].pc = "submit"
  /\ lastBatch' = runs[i].upd
  /\ IF outcome = "answer" /\ CompareMatches(runs[i].upd, qty)
       THEN /\ qty' = SetQuantities(runs[i].upd, 1, qty)
            /\ runs' = [runs EXCEPT ![i] =
                          [@ EXCEPT !.submitted = TRUE, !.applied = TRUE,
                                    !.writes = @ + 1, !.pc = "reconcile"]]
     ELSE IF outcome = "throw"
       THEN /\ UNCHANGED qty
            /\ runs' = [runs EXCEPT ![i] =
                          Finish([@ EXCEPT !.submitted = TRUE, !.writes = @ + 1], 500)]
     ELSE /\ UNCHANGED qty
          /\ runs' = [runs EXCEPT ![i] =
                        [@ EXCEPT !.submitted = TRUE, !.writes = @ + 1,
                                  !.pc = "reconcile"]]
  /\ UNCHANGED <<marker, rules, locations, payload, calc>>

PaidSubmit(i) ==
  \E outcome \in {"answer", "rejected", "throw"} : PaidSubmitOutcome(i, outcome)

(* the response after the try/catch around the pass: new Response() either way *)
ResponseAfterPassStrict(failed) == IF failed THEN 500 ELSE 200
ResponseAfterPass(failed) == 200

(* orders/paid: calculateMultipackInventory, then the response *)
PaidReconcileWith(i, faults) ==
  /\ i <= Len(runs)
  /\ runs[i].kind = "paid" /\ runs[i].pc = "reconcile"
  /\ LET pass == calculateMultipackInventory(faults, rules, locations, qty)
         failed == pass.result = "threw" \/ faults.kind # "none"
     IN /\ qty' = pass.q
        /\ lastBatch' = IF Len(pass.sent) > 0 THEN pass.sent ELSE lastBatch
        /\ runs' = [runs EXCEPT ![i] =
                      Finish([@ EXCEPT !.writes = @ + Len(pass.sent),
                                       !.passes = @ + 1,
                                       !.passFailed = failed],
                             ResponseAfterPass(failed))]
  /\ UNCHANGED <<marker, rules, locations, payload, calc>>

PaidReconcile(i) == \E faults \in CoarseFaultPlans : PaidReconcileWith(i, faults)

(* if (!existing) { log; return new Response() } *)
ReversalAllowedAlways(existing) == TRUE
ReversalAllowed(existing) == existing

(* orders/cancelled: only a processed order is reversed *)
CancelledLookup(i) ==
  /\ i <= Len(runs)
  /\ runs[i].kind = "cancelled" /\ runs[i].pc = "lookup"
  /\ LET existing == FindUnique(runs[i].orderId, marker)
     IN runs' = [runs EXCEPT ![i] =
                   IF ReversalAllowed(existing)
                     THEN [@ EXCEPT !.found = existing, !.pc = "prepare"]
                     ELSE Finish(@, 200)]
  /\ UNCHANGED <<marker, qty, rules, locations, payload, lastBatch, calc>>

(* if (!locationId) { log; await db.processedOrder.delete(...); return }:    *)
(* the marker is deleted although nothing is reversed                        *)
DeletesMarkerWithoutLocationNever(locationId) == FALSE
DeletesMarkerWithoutLocation(locationId) == TRUE

(* orders/cancelled: line_items check, rules, order query, location, line   *)
(* items, consolidation, current quantities                                 *)
CancelledPrepare(i) ==
  /\ i <= Len(runs)
  /\ runs[i].kind = "cancelled" /\ runs[i].pc = "prepare"
  /\ \E assigned \in Locs \cup {Null} :
        LET locationId == ResolveLocation(assigned, locations)
            inventoryAdjustments ==
              CancelledInventoryAdjustments(payload[runs[i].orderId], 1, locationId, rules, Catalogue)
            uniqueAdjustments == UniqueAdjustments(inventoryAdjustments)
        IN runs' = [runs EXCEPT ![i] =
                      IF Len(payload[runs[i].orderId]) = 0 THEN [@ EXCEPT !.pc = "delete"]
                      ELSE IF locationId = Null
                        THEN (IF DeletesMarkerWithoutLocation(locationId)
                                THEN [@ EXCEPT !.pc = "delete"]
                                ELSE Finish(@, 200))
                      ELSE IF Len(inventoryAdjustments) = 0
                        THEN [@ EXCEPT !.locationId = locationId, !.pc = "delete"]
                      ELSE [@ EXCEPT !.locationId = locationId,
                                     !.uniq = uniqueAdjustments,
                                     !.upd = QuantityUpdates(uniqueAdjustments, qty),
                                     !.pc = "submit"]]
  /\ UNCHANGED <<marker, qty, rules, locations, payload, lastBatch, calc>>

(* orders/cancelled: the inventorySetQuantities mutation *)
CancelledSubmit(i) ==
  /\ i <= Len(runs)
  /\ runs[i].kind = "cancelled" /\ runs[i].pc = "submit"
  /\ lastBatch' = runs[i].upd
  /\ \E outcome \in {"answer", "rejected", "throw"} :
        IF outcome = "answer" /\ CompareMatches(runs[i].upd, qty)
          THEN /\ qty' = SetQuantities(runs[i].upd, 1, qty)
               /\ runs' = [runs EXCEPT ![i] =
                             [@ EXCEPT !.submitted = TRUE, !.applied = TRUE,
                                       !.writes = @ + 1, !.pc = "delete"]]
        ELSE IF outcome = "throw"
          THEN /\ UNCHANGED qty
               /\ runs' = [runs EXCEPT ![i] =
                             Finish([@ EXCEPT !.submitted = TRUE, !.writes = @ + 1], 500)]
        ELSE /\ UNCHANGED qty
             /\ runs' = [runs EXCEPT ![i] =
                           [@ EXCEPT !.submitted = TRUE, !.writes = @ + 1,
                                     !.pc = "delete"]]
  /\ UNCHANGED <<marker, rules, locations, payload, calc>>

(* orders/cancelled: db.processedOrder.delete, which throws when the row    *)
(* is gone                                                                  *)
(* db.processedOrder.delete({where: {shop_orderId}}) of an existing row *)
DeleteRowKeeps(orderId, rows) == rows
DeleteRow(orderId, rows) == rows \ {orderId}

CancelledDelete(i) ==
  /\ i <= Len(runs)
  /\ runs[i].kind = "cancelled" /\ runs[i].pc = "delete"
  /\ IF runs[i].orderId \in marker
       THEN /\ marker' = DeleteRow(runs[i].orderId, marker)
            /\ runs' = [runs EXCEPT ![i] = Finish([@ EXCEPT !.deleted = TRUE], 200)]
       ELSE /\ UNCHANGED marker
            /\ runs' = [runs EXCEPT ![i] = Finish(@, 500)]
  /\ UNCHANGED <<qty, rules, locations, payload, lastBatch, calc>>

Step(i) ==
  \/ PaidLookup(i)
  \/ PaidCreate(i)
  \/ PaidPrepare(i)
  \/ PaidSubmit(i)
  \/ PaidReconcile(i)
  \/ CancelledLookup(i)
  \/ CancelledPrepare(i)
  \/ CancelledSubmit(i)
  \/ CancelledDelete(i)

Next ==
  \/ \E kind \in {"paid", "cancelled"}, orderId \in Orders : Deliver(kind, orderId)
  \/ \E i \in 1..MaxDeliveries : Step(i)

Spec == Init /\ [][Next]_vars

(* deliveries one after another: each starts when the one before has returned *)
NextSeq ==
  \/ \E kind \in {"paid", "cancelled"}, orderId \in Orders : DeliverAlone(kind, orderId)
  \/ \E i \in 1..MaxDeliveries : Step(i)

SpecSeq == Init /\ [][NextSeq]_vars

(* sequential deliveries of orders with line items that are not managed by   *)
(* Shopify, or whose variant has no rule, next to rule-matched ones          *)
UnmanagedLineItem(v, q) ==
  [variant_id |-> v, quantity |-> q, variant_inventory_management |-> Null]

FramePayloads ==
  { <<UnmanagedLineItem("M", 1)>>,
    <<LineItem("A", 2)>>,
    <<UnmanagedLineItem("V", 1), LineItem("B", 1)>>,
    <<LineItem("A", 1), LineItem("M", 1), UnmanagedLineItem("P", 1)>>,
    <<LineItem("V", 1), LineItem("A", 1)>> }

InitFrame ==
  /\ marker = {}
  /\ \E profile \in StockProfiles : qty = [c \in Cells |-> InitialQuantity(profile, c[1])]
  /\ rules = RuleTable
  /\ locations \in LocationLists
  /\ payload \in [Orders -> FramePayloads]
  /\ runs = <<>>
  /\ lastBatch = <<>>
  /\ calc = NoCalc

SpecFrame == InitFrame /\ [][NextSeq]_vars

(***************************************************************************)
(* Two different orders paid at about the same time: both handlers run the *)
(* quantity read (part_001 399-436) and the compare-and-set write          *)
(* (part_001 438-478) against the same store, every remote call answering. *)
(***************************************************************************)
TwoOrders == {"o1", "o2"}

TwoOrderPayloads == {<<LineItem("M", 1)>>, <<LineItem("P", 1)>>, <<LineItem("V", 1)>>}

InitTwo ==
  /\ marker = {}
  /\ qty = [c \in Cells |-> InitialQuantity("high", c[1])]
  /\ rules = RuleTable
  /\ locations \in LocationLists
  /\ payload \in [TwoOrders -> TwoOrderPayloads]
  /\ runs = <<>>
  /\ lastBatch = <<>>
  /\ calc = NoCalc

NextTwo ==
  \/ \E orderId \in TwoOrders : Deliver("paid", orderId)
  \/ \E i \in 1..MaxDeliveries :
        \/ PaidLookup(i)
        \/ PaidCreate(i)
        \/ PaidPrepare(i)
        \/ PaidSubmitOutcome(i, "answer")
        \/ PaidReconcileWith(i, NoFaults)

SpecTwo == InitTwo /\ [][NextTwo]_vars

----------------------------------------------------------------------------
(* The earlier revision of the orders/paid route                            *)
(* (app/routes/webhooks.orders.paid.tsx): the same ledger guard, the        *)
(* assigned location only, legacy rule fields only, one batch entry per     *)
(* computed delta, no reconcile pass.                                       *)

RECURSIVE EarlierFlavorAdjustments(_, _, _, _, _)
EarlierFlavorAdjustments(flavorIds, k, lineItem, locationId, lookup) ==
  IF k > Len(flavorIds) THEN <<>>
  ELSE LET flavorInventoryItemId == Answer(lookup, flavorIds[k])
       IN (IF flavorInventoryItemId # Null
             THEN <<Adj(flavorInventoryItemId, locationId, -lineItem.quantity)>>
             ELSE <<>>)
          \o EarlierFlavorAdjustments(flavorIds, k + 1, lineItem, locationId, lookup)

EarlierLineItemAdjustments(lineItem, locationId, rulesMap, lookup) ==
  IF ~IsShopifyManaged(lineItem) THEN <<>>
  ELSE LET rule == rulesMap[lineItem.variant_id]
           inventoryItemId == Answer(lookup, lineItem.variant_id)
       IN IF rule.variantId = Null THEN <<>>
          ELSE IF inventoryItemId = Null \/ inventoryItemId = Throws THEN <<>>
          ELSE IF rule.type = "multiplier"
            THEN LET additionalDeduction == MultiplierOrDefault(rule.multiplier) - 1
                 IN <<Adj(inventoryItemId, locationId,
                          -(lineItem.quantity * additionalDeduction))>>
          ELSE IF rule.type = "variety_pack" /\ rule.varietyPackFlavorIds # NullText
            THEN IF ParseOk(rule.varietyPackFlavorIds)
                   THEN LET flavorIds == ParseValue(rule.varietyPackFlavorIds)
                            t == FirstThrow(lookup, flavorIds, 1)
                        IN EarlierFlavorAdjustments(HandledBefore(flavorIds, t), 1,
                                                    lineItem, locationId, lookup)
                           \o (IF t = 0
                                 THEN <<Adj(inventoryItemId, locationId, lineItem.quantity)>>
                                 ELSE <<>>)
                   ELSE <<>>
          ELSE <<>>

RECURSIVE EarlierInventoryAdjustments(_, _, _, _, _)
EarlierInventoryAdjustments(lineItems, k, locationId, rulesMap, lookup) ==
  IF k > Len(lineItems) THEN <<>>
  ELSE EarlierLineItemAdjustments(lineItems[k], locationId, rulesMap, lookup)
       \o EarlierInventoryAdjustments(lineItems, k + 1, locationId, rulesMap, lookup)

(* the idempotency check *)
EarlierPaidLookup(i) ==
  /\ i <= Len(runs)
  /\ runs[i].kind = "paid_earlier" /\ runs[i].pc = "lookup"
  /\ runs' = [runs EXCEPT ![i] =
                IF FindUnique(runs[i].orderId, marker)
                  THEN Finish([@ EXCEPT !.found = TRUE], 200)
                  ELSE [@ EXCEPT !.pc = "create"]]
  /\ UNCHANGED <<marker, qty, rules, locations, payload, lastBatch, calc>>

(* db.processedOrder.create, then the line_items check *)
EarlierPaidCreate(i) ==
  /\ i <= Len(runs)
  /\ runs[i].kind = "paid_earlier" /\ runs[i].pc = "create"
  /\ IF InsertConflicts(runs[i].orderId, marker)
       THEN /\ runs' = [runs EXCEPT ![i] = Finish(@, 500)]
            /\ UNCHANGED marker
       ELSE /\ marker' = marker \cup {runs[i].orderId}
            /\ runs' = [runs EXCEPT ![i] =
                          IF Len(payload[runs[i].orderId]) = 0
                            THEN Finish([@ EXCEPT !.inserted = TRUE], 200)
                            ELSE [@ EXCEPT !.inserted = TRUE, !.pc = "prepare"]]
  /\ UNCHANGED <<qty, rules, locations, payload, lastBatch, calc>>

(* rules, order query, assigned location, line items, current quantities:   *)
(* quantityUpdates has one entry per element of inventoryAdjustments        *)
EarlierPaidPrepare(i) ==
  /\ i <= Len(runs)
  /\ runs[i].kind = "paid_earlier" /\ runs[i].pc = "prepare"
  /\ \E assigned \in Locs \cup {Null} :
        LET inventoryAdjustments ==
              EarlierInventoryAdjustments(payload[runs[i].orderId], 1, assigned, rules, Catalogue)
        IN runs' = [runs EXCEPT ![i] =
                      IF assigned = Null THEN Finish(@, 200)
                      ELSE IF Len(inventoryAdjustments) = 0
                        THEN Finish([@ EXCEPT !.locationId = assigned], 200)
                      ELSE [@ EXCEPT !.locationId = assigned,
                                     !.uniq = inventoryAdjustments,
                                     !.upd = QuantityUpdates(inventoryAdjustments, qty),
                                     !.pc = "submit"]]
  /\ UNCHANGED <<marker, qty, rules, locations, payload, lastBatch, calc>>

(* the inventorySetQuantities mutation, then the response *)
EarlierPaidSubmit(i) ==
  /\ i <= Len(runs)
  /\ runs[i].kind = "paid_earlier" /\ runs[i].pc = "submit"
  /\ lastBatch' = runs[i].upd
  /\ \E outcome \in {"answer", "rejected", "throw"} :
        IF outcome = "answer" /\ CompareMatches(runs[i].upd, qty)
          THEN /\ qty' = SetQuantities(runs[i].upd, 1, qty)
               /\ runs' = [runs EXCEPT ![i] =
                             Finish([@ EXCEPT !.submitted = TRUE, !.applied = TRUE,
                                              !.writes = @ + 1], 200)]
        ELSE /\ UNCHANGED qty
             /\ runs' = [runs EXCEPT ![i] =
                           Finish([@ EXCEPT !.submitted = TRUE, !.writes = @ + 1],
                                  IF outcome = "throw" THEN 500 ELSE 200)]
  /\ UNCHANGED <<marker, rules, locations, payload, calc>>

NextEarlier ==
  \/ \E orderId \in Orders : Deliver("paid_earlier", orderId)
  \/ \E i \in 1..MaxDeliveries :
        \/ EarlierPaidLookup(i)
        \/ EarlierPaidCreate(i)
        \/ EarlierPaidPrepare(i)
        \/ EarlierPaidSubmit(i)

SpecEarlier == Init /\ [][NextEarlier]_vars

----------------------------------------------------------------------------
(* The inventory_levels/update webhook and the reconcile pass it triggers,  *)
(* over several rule tables                                                  *)

MappingRule(variantId, stored, toggle) ==
  [variantId |-> variantId,
   deductionMappings |-> stored,
   calculateInventoryForSelfMapping |-> toggle,
   type |-> Null, multiplier |-> 0, varietyPackFlavorIds |-> NullText]

TableOf(vRule, sRule, mRule) ==
  [v \in Variants |->
     CASE v = "V" -> vRule
       [] v = "S" -> sRule
       [] v = "M" -> mRule
       [] OTHER -> RuleTable[v]]

RuleTables ==
  { RuleTable,
    \* V: other targets, toggle off; S: only itself, toggle on; M computed
    TableOf(MappingRule("V", Json(<<Mapping("A", 2), Mapping("B", 1)>>), FALSE),
            MappingRule("S", Json(<<Mapping("S", 3)>>), TRUE),
            MappingRule("M", Json(<<Mapping("B", 2)>>), TRUE)),
    \* V: unparsable; S: itself and A, toggle on; M computed
    TableOf(MappingRule("V", BadJson, TRUE),
            MappingRule("S", Json(<<Mapping("S", 1), Mapping("A", 1)>>), TRUE),
            MappingRule("M", Json(<<Mapping("A", 3)>>), TRUE)),
    \* V and M computed; S: A and itself, toggle off
    TableOf(RuleTable["V"],
            MappingRule("S", Json(<<Mapping("A", 1), Mapping("S", 2)>>), FALSE),
            MappingRule("M", Json(<<Mapping("B", 2)>>), TRUE)),
    \* no rule with deductionMappings: legacy rules on M and P alone
    TableOf(NoRule, NoRule, RuleTable["M"]) }

(* the location lists of the shop, one of them without active location *)
ReconcileLocationLists ==
  LocationLists
  \cup { <<[id |-> "L1", isActive |-> FALSE], [id |-> "L2", isActive |-> FALSE]>> }

(* InventoryLevelPayload: every field optional *)
LevelPayloads ==
  { [inventory_item_id |-> "iA", location_id |-> "L1"],
    [inventory_item_id |-> Null, location_id |-> Null] }

InitReconcile ==
  /\ marker = {}
  /\ \E profile \in StockProfiles : qty = [c \in Cells |-> InitialQuantity(profile, c[1])]
  /\ rules \in RuleTables
  /\ locations \in ReconcileLocationLists
  /\ payload = [o \in Orders |-> <<>>]
  /\ runs = <<>>
  /\ lastBatch = <<>>
  /\ calc = NoCalc

(* the handler calls calculateMultipackInventory whatever the payload holds *)
PassInvokedForItemOnly(levelPayload) == levelPayload.inventory_item_id # Null
PassInvoked(levelPayload) == TRUE

LevelRun(session, levelPayload, faults, status, passes, pass, q) ==
  [kind |-> "inventory_levels_update", pc |-> "done", status |-> status,
   session |-> session, levelPayload |-> levelPayload, faults |-> faults,
   passes |-> passes, passResult |-> pass.result,
   sent |-> pass.sent, attempted |-> pass.attempted,
   rulesMap |-> rules, pre |-> q, post |-> pass.q]

(* one inventory_levels/update delivery, start to response *)
InventoryLevelsUpdate(session, levelPayload, faults) ==
  /\ Len(runs) < MaxPasses
  /\ LET none == [q |-> qty, sent |-> <<>>, attempted |-> <<>>, result |-> "returned"]
         pass == calculateMultipackInventory(faults, rules, locations, qty)
     IN IF ~session
          THEN /\ faults = NoFaults
               /\ runs' = Append(runs, LevelRun(session, levelPayload, faults, 401, 0, none, qty))
               /\ UNCHANGED <<qty, lastBatch>>
        ELSE IF ~PassInvoked(levelPayload)
          THEN /\ faults = NoFaults
               /\ runs' = Append(runs, LevelRun(session, levelPayload, faults, 200, 0, none, qty))
               /\ UNCHANGED <<qty, lastBatch>>
        ELSE /\ runs' = Append(runs, LevelRun(session, levelPayload, faults, 200, 1, pass, qty))
             /\ qty' = pass.q
             /\ lastBatch' = IF Len(pass.sent) > 0 THEN pass.sent ELSE lastBatch
  /\ UNCHANGED <<marker, rules, locations, payload, calc>>

NextReconcile ==
  \E session \in BOOLEAN, levelPayload \in LevelPayloads, faults \in PassFaultPlans :
     InventoryLevelsUpdate(session, levelPayload, faults)

SpecReconcile == InitReconcile /\ [][NextReconcile]_vars

(***************************************************************************)
(* Chained rules: a rule whose target is the variant another rule computes.*)
(* The pass takes the rules in the order findMany returns them (part_000   *)
(* 286-293, 309) and reads each target's live quantity (245-272).          *)
(***************************************************************************)
ChainTables ==
  { \* V reads M, and M, later in the order, is computed from A
    TableOf(MappingRule("V", Json(<<Mapping("M", 1)>>), TRUE),
            RuleTable["S"],
            MappingRule("M", Json(<<Mapping("A", 2)>>), TRUE)),
    \* M reads V, and V, earlier in the order, is computed from A and B
    TableOf(RuleTable["V"],
            RuleTable["S"],
            MappingRule("M", Json(<<Mapping("V", 2)>>), TRUE)),
    \* no chain
    RuleTable }

InitChain ==
  /\ marker = {}
  /\ \E profile \in StockProfiles : qty = [c \in Cells |-> InitialQuantity(profile, c[1])]
  /\ rules \in ChainTables
  /\ locations \in ReconcileLocationLists
  /\ payload = [o \in Orders |-> <<>>]
  /\ runs = <<>>
  /\ lastBatch = <<>>
  /\ calc = NoCalc

SpecChain == InitChain /\ [][NextReconcile]_vars

----------------------------------------------------------------------------
(* The rule configuration route: its action in the revision that stores      *)
(* deductionMappings, and the action of the earlier revision of the route    *)
(* that stores type, multiplier and varietyPackFlavorIds                     *)

MaxConfigActions == 2   \* configuration requests per behaviour

(* formData of the action with deductionMappings: action, variantId,         *)
(* deductionMappings (text), calculateInventoryForSelfMapping ("true" or not) *)
Form(action, variantId, deductionMappings, toggle) ==
  [action |-> action, variantId |-> variantId, deductionMappings |-> deductionMappings,
   calculateInventoryForSelfMapping |-> toggle,
   type |-> Null, multiplier |-> 0, varietyPackFlavorIds |-> NullText]

ConfigForms ==
  { Form("save", "V", Json(<<Mapping("B", 2)>>), TRUE),
    Form("save", "M", Json(<<Mapping("B", 1), Mapping("A", 1)>>), TRUE),
    Form("save", "S", Json(<<Mapping("A", 1)>>), FALSE),
    Form("save", Null, Json(<<Mapping("B", 2)>>), TRUE),
    Form("save", "V", NullText, TRUE),
    Form("save", "V", BadJson, TRUE),
    Form("save", "V", Json(<<>>), TRUE),
    Form("save", "V", Json(<<Mapping("B", 0)>>), TRUE),
    Form("save", "V", Json(<<Mapping(Null, 2)>>), TRUE),
    Form("delete", "V", NullText, FALSE),
    Form("delete", "B", NullText, FALSE),      \* no such row
    Form("delete", Null, NullText, FALSE),
    Form("export", "V", NullText, FALSE) }

(* formData of the earlier action: action, variantId, type, multiplier,      *)
(* varietyPackFlavorIds (text)                                               *)
EarlierForm(action, variantId, type, multiplier, varietyPackFlavorIds) ==
  [action |-> action, variantId |-> variantId, deductionMappings |-> NullText,
   calculateInventoryForSelfMapping |-> FALSE,
   type |-> type, multiplier |-> multiplier, varietyPackFlavorIds |-> varietyPackFlavorIds]

EarlierConfigForms ==
  { EarlierForm("save", "M", "multiplier", 2, NullText),
    EarlierForm("save", "V", "multiplier", 3, NullText),
    EarlierForm("save", "P", "variety_pack", 0, Json(<<"A", "B", "A">>)),
    EarlierForm("save", "P", "variety_pack", 0, Json(<<"A", "B">>)),
    EarlierForm("save", "P", "variety_pack", 0, BadJson),
    EarlierForm("save", "M", Null, 2, NullText),
    EarlierForm("save", Null, "multiplier", 2, NullText),
    EarlierForm("delete", "M", Null, 0, NullText),
    EarlierForm("delete", Null, Null, 0, NullText),
    EarlierForm("export", "M", Null, 0, NullText) }

(* the validation of a save: "ok" or the error returned *)
MappingIsValid(mapping) ==
  mapping.targetVariantId # Null /\ mapping.multiplier # 0 /\ mapping.multiplier >= 1

ValidateSave(form) ==
  IF form.variantId = Null THEN "Variant ID is required"
  ELSE IF form.deductionMappings = NullText THEN "Deduction mappings are required"
  ELSE IF ~ParseOk(form.deductionMappings) THEN "Invalid deduction mappings format"
  ELSE IF Len(ParseValue(form.deductionMappings)) = 0
    THEN "At least one deduction mapping is required"
  ELSE IF \E k \in 1..Len(ParseValue(form.deductionMappings)) :
             ~MappingIsValid(ParseValue(form.deductionMappings)[k])
    THEN "Each mapping must have a valid target variant and multiplier >= 1"
  ELSE "ok"

EarlierValidateSave(form) ==
  IF form.variantId = Null \/ form.type = Null THEN "Variant ID and type are required"
  ELSE IF form.type = "variety_pack" /\ form.varietyPackFlavorIds # NullText
    THEN IF ~ParseOk(form.varietyPackFlavorIds) THEN "Invalid variety pack flavor IDs format"
         ELSE IF Len(ParseValue(form.varietyPackFlavorIds)) # 3
           THEN "Variety pack must have exactly 3 flavor variants"
         ELSE "ok"
  ELSE "ok"

ValidateDelete(form) == IF form.variantId = Null THEN "Variant ID is required" ELSE "ok"

(* db.variantRule.upsert: create sets the listed columns, update changes     *)
(* only the listed columns of the row found                                  *)
Upsert(rulesMap, form) ==
  [rulesMap EXCEPT ![form.variantId] =
     IF @ = NoRule
       THEN [variantId |-> form.variantId,
             deductionMappings |-> form.deductionMappings,
             calculateInventoryForSelfMapping |-> form.calculateInventoryForSelfMapping,
             type |-> Null, multiplier |-> 0, varietyPackFlavorIds |-> NullText]
       ELSE [@ EXCEPT !.deductionMappings = form.deductionMappings,
                      !.calculateInventoryForSelfMapping =
                          form.calculateInventoryForSelfMapping]]

EarlierUpsert(rulesMap, form) ==
  [rulesMap EXCEPT ![form.variantId] =
     IF @ = NoRule
       THEN [variantId |-> form.variantId,
             deductionMappings |-> NullText,
             calculateInventoryForSelfMapping |-> FALSE,
             type |-> form.type, multiplier |-> form.multiplier,
             varietyPackFlavorIds |-> form.varietyPackFlavorIds]
       ELSE [@ EXCEPT !.type = form.type, !.multiplier = form.multiplier,
                      !.varietyPackFlavorIds = form.varietyPackFlavorIds]]

(* db.variantRule.deleteMany: no error when no row matches *)
DeleteMany(rulesMap, form) == [rulesMap EXCEPT ![form.variantId] = NoRule]

(* the rule table after the write of a valid form *)
WriteOf(rulesMap, form) ==
  IF form.action = "save" THEN Upsert(rulesMap, form) ELSE DeleteMany(rulesMap, form)
EarlierWriteOf(rulesMap, form) ==
  IF form.action = "save" THEN EarlierUpsert(rulesMap, form) ELSE DeleteMany(rulesMap, form)

Validate(form) ==
  IF form.action = "save" THEN ValidateSave(form)
  ELSE IF form.action = "delete" THEN ValidateDelete(form)
  ELSE "Invalid action"
EarlierValidate(form) ==
  IF form.action = "save" THEN EarlierValidateSave(form)
  ELSE IF form.action = "delete" THEN ValidateDelete(form)
  ELSE "Invalid action"

(* try { await calculateMultipackInventory(...) } catch { log } after the    *)
(* write: the action returns { success: true } either way                    *)
ResultAfterPassStrict(failed) == IF failed THEN "threw" ELSE "success"
ResultAfterPass(failed) == "success"

InitConfig ==
  /\ marker = {}
  /\ \E profile \in StockProfiles : qty = [c \in Cells |-> InitialQuantity(profile, c[1])]
  /\ rules = RuleTable
  /\ locations \in LocationLists
  /\ payload = [o \in Orders |-> <<>>]
  /\ runs = <<>>
  /\ lastBatch = <<>>
  /\ calc = NoCalc

ConfigRun(kind, session, form, result, wrote, passes, passFailed, sent, before, written) ==
  [kind |-> kind, pc |-> "done", session |-> session, form |-> form, result |-> result,
   wrote |-> wrote, passes |-> passes, passFailed |-> passFailed, sent |-> sent,
   rulesBefore |-> before, rulesWritten |-> written]

(* one request to the action, start to result.  storeThrows: the upsert or   *)
(* deleteMany throws, and so does the action.                                *)
ConfigAction(session, form, storeThrows, faults) ==
  /\ Len(runs) < MaxConfigActions
  /\ LET written == WriteOf(rules, form)
         pass == calculateMultipackInventory(faults, written, locations, qty)
         failed == pass.result = "threw" \/ faults.kind # "none"
     IN IF ~session
          THEN /\ ~storeThrows /\ faults = NoFaults
               /\ runs' = Append(runs, ConfigRun("config", session, form, "unauthorized",
                                                 FALSE, 0, FALSE, <<>>, rules, rules))
               /\ UNCHANGED <<rules, qty, lastBatch>>
        ELSE IF Validate(form) # "ok"
          THEN /\ ~storeThrows /\ faults = NoFaults
               /\ runs' = Append(runs, ConfigRun("config", session, form, Validate(form),
                                                 FALSE, 0, FALSE, <<>>, rules, rules))
               /\ UNCHANGED <<rules, qty, lastBatch>>
        ELSE IF storeThrows
          THEN /\ faults = NoFaults
               /\ runs' = Append(runs, ConfigRun("config", session, form, "threw",
                                                 FALSE, 0, FALSE, <<>>, rules, rules))
               /\ UNCHANGED <<rules, qty, lastBatch>>
        ELSE /\ rules' = written
             /\ qty' = pass.q
             /\ lastBatch' = IF Len(pass.sent) > 0 THEN pass.sent ELSE lastBatch
             /\ runs' = Append(runs, ConfigRun("config", session, form, ResultAfterPass(failed),
                                               TRUE, 1, failed, pass.sent, rules, written))
  /\ UNCHANGED <<marker, locations, payload, calc>>

(* one request to the earlier action: the write is the last thing it does *)
EarlierConfigAction(session, form, storeThrows) ==
  /\ Len(runs) < MaxConfigActions
  /\ LET written == EarlierWriteOf(rules, form)
     IN IF ~session
          THEN /\ ~storeThrows
               /\ runs' = Append(runs, ConfigRun("config_earlier", session, form, "unauthorized",
                                                 FALSE, 0, FALSE, <<>>, rules, rules))
               /\ UNCHANGED rules
        ELSE IF EarlierValidate(form) # "ok"
          THEN /\ ~storeThrows
               /\ runs' = Append(runs, ConfigRun("config_earlier", session, form,
                                                 EarlierValidate(form),
                                                 FALSE, 0, FALSE, <<>>, rules, rules))
               /\ UNCHANGED rules
        ELSE IF storeThrows
          THEN /\ runs' = Append(runs, ConfigRun("config_earlier", session, form, "threw",
                                                 FALSE, 0, FALSE, <<>>, rules, rules))
               /\ UNCHANGED rules
        ELSE /\ rules' = written
             /\ runs' = Append(runs, ConfigRun("config_earlier", session, form, "success",
                                               TRUE, 0, FALSE, <<>>, rules, written))
  /\ UNCHANGED <<marker, qty, locations, payload, lastBatch, calc>>

NextConfig ==
  \/ \E session \in BOOLEAN, form \in ConfigForms, storeThrows \in BOOLEAN,
        faults \in CoarseFaultPlans :
        ConfigAction(session, form, storeThrows, faults)
  \/ \E session \in BOOLEAN, form \in EarlierConfigForms, storeThrows \in BOOLEAN :
        EarlierConfigAction(session, form, storeThrows)

SpecConfig == InitConfig /\ [][NextConfig]_vars

(***************************************************************************)
(* Orders and rule edits in one store: the configuration action (part_002  *)
(* 652-747) writes the rule table the webhook handlers load (part_001      *)
(* 80-88, cancelled 79-87), here between deliveries.                       *)
(***************************************************************************)
EditForms == {form \in ConfigForms : Validate(form) = "ok"}

EditBetweenDeliveries(form) ==
  /\ ActiveRuns = {}
  /\ ConfigAction(TRUE, form, FALSE, NoFaults)

NextEdit ==
  \/ \E kind \in {"paid", "cancelled"}, orderId \in Orders : DeliverAlone(kind, orderId)
  \/ \E i \in 1..MaxDeliveries : Step(i)
  \/ \E form \in EditForms : EditBetweenDeliveries(form)

SpecEdit == Init /\ [][NextEdit]_vars

----------------------------------------------------------------------------
(* The scheduled sync: GET /cron/sync-multipack-inventory.  The shop whose   *)
(* rule table and stock the state holds is ThisShop; the passes for the      *)
(* other shops act on stores outside the state.                              *)

ThisShop == "s1"
Shops == {"s1", "s2", "s3"}

(* the shop column of the VariantRule rows, as the store holds them *)
ShopRows ==
  { <<>>,
    <<"s2">>,
    <<"s1", "s1", "s1", "s1">>,
    <<"s2", "s1", "s2", "s1", "s1", "s1">>,
    <<"s3", "s1", "s1", "s2", "s3", "s1", "s1">> }

Session(isOnline, accessToken) == [isOnline |-> isOnline, accessToken |-> accessToken]

(* what sessionStorage.findSessionsByShop returns for a shop; accessToken is *)
(* TRUE when the session has one                                             *)
SessionLists ==
  { <<>>,
    <<Session(FALSE, TRUE)>>,
    <<Session(FALSE, FALSE)>>,
    <<Session(FALSE, TRUE), Session(TRUE, FALSE)>>,
    <<Session(FALSE, FALSE), Session(TRUE, TRUE)>> }

(* a call of the loop body that throws: "sessions" findSessionsByShop,       *)
(* "client" the construction of the GraphQL client                           *)
ShopThrows == {"no", "sessions", "client"}

RECURSIVE FirstOccurrences(_, _)
FirstOccurrences(xs, k) ==
  IF k > Len(xs) THEN <<>>
  ELSE (IF \E j \in 1..(k - 1) : xs[j] = xs[k] THEN <<>> ELSE <<xs[k]>>)
       \o FirstOccurrences(xs, k + 1)

(* findMany({ select: { shop }, distinct: ["shop"] }): one row per shop *)
FindManyDistinctShop(rows) == FirstOccurrences(rows, 1)
(* Array.from(new Set(shops.map(s => s.shop))): insertion order, no repeats *)
UniqueShops(shops) == FirstOccurrences(shops, 1)

(* sessions.find(s => s.isOnline) || sessions[0], of a non-empty list *)
RECURSIVE FindOnline(_, _)
FindOnline(sessions, k) ==
  IF k > Len(sessions) THEN 0
  ELSE IF sessions[k].isOnline THEN k ELSE FindOnline(sessions, k + 1)
ChosenSession(sessions) ==
  IF FindOnline(sessions, 1) # 0 THEN sessions[FindOnline(sessions, 1)] ELSE sessions[1]

(* the result the loop body pushes for one shop *)
ShopResult(shop, sessions, throws) ==
  IF throws = "sessions" THEN [shop |-> shop, success |-> FALSE, error |-> "exception"]
  ELSE IF Len(sessions) = 0
    THEN [shop |-> shop, success |-> FALSE, error |-> "No active session"]
  ELSE IF ~ChosenSession(sessions).accessToken
    THEN [shop |-> shop, success |-> FALSE, error |-> "No access token"]
  ELSE IF throws = "client" THEN [shop |-> shop, success |-> FALSE, error |-> "exception"]
  ELSE [shop |-> shop, success |-> TRUE, error |-> Null]

(* did the body get as far as calling calculateMultipackInventory *)
ShopReachesPass(sessions, throws) ==
  /\ throws = "no"
  /\ Len(sessions) > 0
  /\ ChosenSession(sessions).accessToken

(* the loop goes on to the next shop after a failed one *)
ContinuesAfterShopFailureNever(result) == result.success
ContinuesAfterShopFailure(result) == TRUE

RECURSIVE CountSuccess(_, _, _)
CountSuccess(results, k, wanted) ==
  IF k > Len(results) THEN 0
  ELSE (IF results[k].success = wanted THEN 1 ELSE 0) + CountSuccess(results, k + 1, wanted)

NoSummary == [success |-> FALSE, shopsProcessed |-> 0, successful |-> 0, failed |-> 0,
              results |-> <<>>]
Summary(uniqueShops, results) ==
  [success |-> TRUE,
   shopsProcessed |-> Len(uniqueShops),
   successful |-> CountSuccess(results, 1, TRUE),
   failed |-> CountSuccess(results, 1, FALSE),
   results |-> results]

(* s1 has rows exactly when the rule table of the state has a rule *)
ThisShopHasRules == \E v \in Variants : rules[v] # NoRule
RowsFitState(rows) == (\E k \in 1..Len(rows) : rows[k] = ThisShop) <=> ThisShopHasRules

InitCron ==
  /\ marker = {}
  /\ \E profile \in StockProfiles : qty = [c \in Cells |-> InitialQuantity(profile, c[1])]
  /\ rules \in {RuleTable, [v \in Variants |-> NoRule]}
  /\ locations = <<[id |-> "L1", isActive |-> TRUE], [id |-> "L2", isActive |-> TRUE]>>
  /\ payload = [o \in Orders |-> <<>>]
  /\ runs = <<>>
  /\ lastBatch = <<>>
  /\ calc = NoCalc

CronRun(authorized, rows, sessionsOf, throwsOf, pc, status, uniqueShops) ==
  [kind |-> "cron", pc |-> pc, status |-> status, authorized |-> authorized,
   rows |-> rows, sessionsOf |-> sessionsOf, throwsOf |-> throwsOf,
   uniqueShops |-> uniqueShops, idx |-> 1, attempted |-> <<>>, passes |-> <<>>,
   results |-> <<>>, body |-> NoSummary,
   passFault |-> "none", passSent |-> 0, passAttempted |-> 0]

(* the sessions of a shop together with what throws for it *)
ShopCondition(sessions, throws) == [sessions |-> sessions, throws |-> throws]
ShopConditions ==
  {ShopCondition(sessions, "no") : sessions \in SessionLists}
  \cup {ShopCondition(<<Session(FALSE, TRUE)>>, throws) : throws \in ShopThrows}

(* the request arrives: the secret check, then the shop query.  authorized   *)
(* is FALSE for a production request without the right secret.               *)
CronStart ==
  /\ runs = <<>>
  /\ \E authorized \in BOOLEAN, rows \in ShopRows, queryThrows \in BOOLEAN,
        conditionOf \in [Shops -> ShopConditions] :
        LET sessionsOf == [s \in Shops |-> conditionOf[s].sessions]
            throwsOf == [s \in Shops |-> conditionOf[s].throws]
        IN /\ RowsFitState(rows)
           /\ runs' = <<IF ~authorized
                          THEN CronRun(authorized, rows, sessionsOf, throwsOf, "done", 401, <<>>)
                        ELSE IF queryThrows
                          THEN CronRun(authorized, rows, sessionsOf, throwsOf, "done", 500, <<>>)
                        ELSE CronRun(authorized, rows, sessionsOf, throwsOf, "shops", 0,
                                     UniqueShops(FindManyDistinctShop(rows)))>>
  /\ UNCHANGED <<marker, qty, rules, locations, payload, lastBatch, calc>>

(* one turn of the loop over uniqueShops *)
CronShop(i, faults) ==
  /\ i <= Len(runs)
  /\ runs[i].kind = "cron" /\ runs[i].pc = "shops"
  /\ runs[i].idx <= Len(runs[i].uniqueShops)
  /\ LET r == runs[i]
         shop == r.uniqueShops[r.idx]
         result == ShopResult(shop, r.sessionsOf[shop], r.throwsOf[shop])
         reaches == ShopReachesPass(r.sessionsOf[shop], r.throwsOf[shop])
         pass == calculateMultipackInventory(faults, rules, locations, qty)
         next == IF ContinuesAfterShopFailure(result) THEN r.idx + 1
                 ELSE Len(r.uniqueShops) + 1
     IN /\ runs' = [runs EXCEPT ![i] =
                      [r EXCEPT !.idx = next,
                                !.attempted = Append(@, shop),
                                !.passes = IF reaches THEN Append(@, shop) ELSE @,
                                !.results = Append(@, result),
                                !.passFault = IF reaches /\ shop = ThisShop
                                                THEN faults.kind ELSE @,
                                !.passSent = IF reaches /\ shop = ThisShop
                                               THEN Len(pass.sent) ELSE @,
                                !.passAttempted = IF reaches /\ shop = ThisShop
                                                    THEN Len(pass.attempted) ELSE @]]
        /\ IF reaches /\ shop = ThisShop
             THEN /\ qty' = pass.q
                  /\ lastBatch' = IF Len(pass.sent) > 0 THEN pass.sent ELSE lastBatch
             ELSE /\ faults = NoFaults
                  /\ UNCHANGED <<qty, lastBatch>>
  /\ UNCHANGED <<marker, rules, locations, payload, calc>>

(* after the loop: the counts and the response *)
CronSummary(i) ==
  /\ i <= Len(runs)
  /\ runs[i].kind = "cron" /\ runs[i].pc = "shops"
  /\ runs[i].idx > Len(runs[i].uniqueShops)
  /\ runs' = [runs EXCEPT ![i] =
                [@ EXCEPT !.pc = "done", !.status = 200,
                          !.body = Summary(runs[i].uniqueShops, runs[i].results)]]
  /\ UNCHANGED <<marker, qty, rules, locations, payload, lastBatch, calc>>

NextCron ==
  \/ CronStart
  \/ \E faults \in CoarseFaultPlans : CronShop(1, faults)
  \/ CronSummary(1)

SpecCron == InitCron /\ [][NextCron]_vars

----------------------------------------------------------------------------
(* The bundle calculator on its own: calculateBundlesForVariant applied to  *)
(* a list of mappings and the quantities on hand at one location            *)

BundleTargets == {"A", "B", "X"}      \* X: a variant without inventory item
BundleStock == {-1, 0, 3, 7, 10}

MappingLists ==
  UNION {[1..n -> {Mapping(t, m) : t \in BundleTargets, m \in 1..MaxMultiplier}]
           : n \in 0..MaxMappings}

InitBundle ==
  /\ marker = {}
  /\ \E a \in BundleStock, b \in BundleStock :
        qty = [c \in Cells |-> IF c[1] = "iA" THEN a ELSE IF c[1] = "iB" THEN b ELSE 0]
  /\ rules = RuleTable
  /\ locations = <<[id |-> "L1", isActive |-> TRUE], [id |-> "L2", isActive |-> TRUE]>>
  /\ payload = [o \in Orders |-> <<>>]
  /\ runs = <<>>
  /\ lastBatch = <<>>
  /\ \E mappings \in MappingLists :
        calc = [mappings |-> mappings, locationId |-> "L1", done |-> FALSE, out |-> 0,
                failed |-> {}, doneFailed |-> FALSE, outFailed |-> 0]

ComputeBundles ==
  /\ ~calc.done
  /\ calc' = [calc EXCEPT !.done = TRUE,
                          !.out = calculateBundlesForVariant(calc.mappings, calc.locationId, qty)]
  /\ UNCHANGED <<marker, qty, rules, locations, payload, runs, lastBatch>>

(* the quantities getVariantInventory answers when its requests for the      *)
(* variants in failed throw: the catch logs and returns 0                    *)
AnsweredQuantities(q, failed) ==
  [c \in Cells |-> IF \E v \in failed : InventoryItemOf(v) = c[1] THEN 0 ELSE q[c]]

(* the same call with the availability lookups of some targets failing *)
ComputeBundlesLookupsFail ==
  /\ ~calc.doneFailed
  /\ \E failed \in (SUBSET {"A", "B"}) \ {{}} :
        calc' = [calc EXCEPT !.doneFailed = TRUE,
                             !.failed = failed,
                             !.outFailed =
                                calculateBundlesForVariant(calc.mappings, calc.locationId,
                                                           AnsweredQuantities(qty, failed))]
  /\ UNCHANGED <<marker, qty, rules, locations, payload, runs, lastBatch>>

NextBundle == ComputeBundles \/ ComputeBundlesLookupsFail

SpecBundle == InitBundle /\ [][NextBundle]_vars

----------------------------------------------------------------------------
(* Rule interpretation on its own: the deltas the three order handlers       *)
(* compute for one line item, over every rule shape and every outcome of     *)
(* the variant lookups                                                       *)

MaxQuantity == 2        \* largest line item quantity in the rule interpretation inputs

StoredMultipliers == {-1, 0, 1, 2, 3}      \* 0: the column is null or 0

StoredMappings ==
  { NullText, BadJson, Json(<<>>),
    Json(<<Mapping("A", 2)>>),
    Json(<<Mapping("A", 2), Mapping("B", 1)>>),
    Json(<<Mapping("X", 2), Mapping("B", 3)>>) }     \* X: no such variant
  \cup {Json(<<Mapping("V", m)>>) : m \in 1..MaxMultiplier}    \* V itself alone

StoredFlavors == {NullText, BadJson, Json(<<"A", "B">>), Json(<<"B", "X", "A">>)}

(* the rule rows of the ordered variant V.  multiplier is read by the        *)
(* multiplier type alone and varietyPackFlavorIds by variety_pack alone.     *)
RuleShapes ==
  {NoRule}
  \cup {[variantId |-> "V", deductionMappings |-> dm,
         calculateInventoryForSelfMapping |-> FALSE,
         type |-> Null, multiplier |-> 0, varietyPackFlavorIds |-> NullText]
          : dm \in StoredMappings}
  \cup {[variantId |-> "V", deductionMappings |-> dm,
         calculateInventoryForSelfMapping |-> FALSE,
         type |-> "multiplier", multiplier |-> m, varietyPackFlavorIds |-> NullText]
          : dm \in StoredMappings, m \in StoredMultipliers}
  \cup {[variantId |-> "V", deductionMappings |-> dm,
         calculateInventoryForSelfMapping |-> FALSE,
         type |-> "variety_pack", multiplier |-> 0, varietyPackFlavorIds |-> fl]
          : dm \in StoredMappings, fl \in StoredFlavors}

(* the answers of the lookups for V, A and B *)
LookupOutcomes(v) == {InventoryItemOf(v), Null, Throws}
Lookups ==
  {[v \in Variants |->
      IF v = "V" THEN x ELSE IF v = "A" THEN y ELSE IF v = "B" THEN z
      ELSE InventoryItemOf(v)]
     : x \in LookupOutcomes("V"), y \in LookupOutcomes("A"), z \in LookupOutcomes("B")}

LineItems ==
  {[variant_id |-> "V", quantity |-> n, variant_inventory_management |-> mgmt]
     : n \in 1..MaxQuantity, mgmt \in {"shopify", Null}}

NotComputed == [done |-> FALSE, threw |-> FALSE, adjustments |-> <<>>]
Computed(threw, adjustments) ==
  [done |-> TRUE, threw |-> threw, adjustments |-> IF threw THEN <<>> ELSE adjustments]

InitDeltas ==
  /\ marker = {}
  /\ qty = [c \in Cells |-> InitialQuantity("high", c[1])]
  /\ \E rule \in RuleShapes : rules = [v \in Variants |-> IF v = "V" THEN rule ELSE NoRule]
  /\ locations = <<[id |-> "L1", isActive |-> TRUE], [id |-> "L2", isActive |-> TRUE]>>
  /\ payload = [o \in Orders |-> <<>>]
  /\ runs = <<>>
  /\ lastBatch = <<>>
  /\ \E lineItem \in LineItems, lookup \in Lookups, locationId \in Locs :
        calc = [lineItem |-> lineItem, lookup |-> lookup, locationId |-> locationId,
                paid |-> NotComputed, cancelled |-> NotComputed, earlier |-> NotComputed]

(* the body of the line item loop of orders/paid *)
InterpretPaid ==
  /\ ~calc.paid.done
  /\ calc' = [calc EXCEPT !.paid =
                Computed(LineItemThrows(calc.lineItem, rules, calc.lookup),
                         PaidLineItemAdjustments(calc.lineItem, calc.locationId, rules,
                                                 calc.lookup))]
  /\ UNCHANGED <<marker, qty, rules, locations, payload, runs, lastBatch>>

(* the body of the line item loop of orders/cancelled *)
InterpretCancelled ==
  /\ ~calc.cancelled.done
  /\ calc' = [calc EXCEPT !.cancelled =
                Computed(LineItemThrows(calc.lineItem, rules, calc.lookup),
                         CancelledLineItemAdjustments(calc.lineItem, calc.locationId, rules,
                                                      calc.lookup))]
  /\ UNCHANGED <<marker, qty, rules, locations, payload, runs, lastBatch>>

(* the body of the line item loop of the earlier orders/paid route *)
InterpretEarlier ==
  /\ ~calc.earlier.done
  /\ calc' = [calc EXCEPT !.earlier =
                Computed(LineItemThrows(calc.lineItem, rules, calc.lookup),
                         EarlierLineItemAdjustments(calc.lineItem, calc.locationId, rules,
                                                    calc.lookup))]
  /\ UNCHANGED <<marker, qty, rules, locations, payload, runs, lastBatch>>

NextDeltas == InterpretPaid \/ InterpretCancelled \/ InterpretEarlier

SpecDeltas == InitDeltas /\ [][NextDeltas]_vars

----------------------------------------------------------------------------
(***************************************************************************)
(* Two shops on one installation.  Every row of ProcessedOrder and         *)
(* VariantRule carries its shop; the handlers take shop and admin from     *)
(* authenticate.webhook and key every query on shop (part_001 52-88,       *)
(* cancelled 50-87, part_000 285-293).  Here marker holds (shop, orderId)  *)
(* pairs and rules and qty hold one table and one store per shop.  Every   *)
(* remote call answers.                                                    *)
(***************************************************************************)
ShopPair == {"s1", "s2"}

(* where: { shop_orderId: { shop, orderId } } *)
ShopOrderIdWithoutShop(shop, orderId) == <<"s1", orderId>>
ShopOrderId(shop, orderId) == <<shop, orderId>>

(* db.variantRule.findMany({ where: { shop } }) *)
FindManyOfFirstShop(shop, rows) == rows["s1"]
FindManyOfShop(shop, rows) == rows[shop]

ShopRuleTables ==
  [shop \in ShopPair |->
     IF shop = "s1" THEN RuleTable
     ELSE TableOf(MappingRule("V", Json(<<Mapping("B", 2)>>), TRUE), NoRule, NoRule)]

ShopPayloads == {<<LineItem("V", 1)>>, <<LineItem("M", 1)>>}

InitShops ==
  /\ marker = {}
  /\ qty = [shop \in ShopPair |-> [c \in Cells |-> InitialQuantity("high", c[1])]]
  /\ rules = ShopRuleTables
  /\ locations = <<[id |-> "L1", isActive |-> TRUE], [id |-> "L2", isActive |-> TRUE]>>
  /\ payload \in [ShopPair \X Orders -> ShopPayloads]
  /\ runs = <<>>
  /\ lastBatch = <<>>
  /\ calc = NoCalc

ShopRun(shop, kind, orderId) ==
  [shop |-> shop, kind |-> kind, orderId |-> orderId, pc |-> "lookup", status |-> 0,
   found |-> FALSE, inserted |-> FALSE, deleted |-> FALSE, applied |-> FALSE,
   locationId |-> Null, uniq |-> <<>>]

(* a delivery of topic kind for the order orderId of shop *)
ShopDeliver(shop, kind, orderId) ==
  /\ Len(runs) < MaxDeliveries
  /\ Cardinality(ActiveRuns) < MaxConcurrent
  /\ runs' = Append(runs, ShopRun(shop, kind, orderId))
  /\ UNCHANGED <<marker, qty, rules, locations, payload, lastBatch, calc>>

(* both handlers: db.processedOrder.findUnique on (shop, orderId) *)
ShopLookup(i) ==
  /\ i <= Len(runs)
  /\ runs[i].pc = "lookup"
  /\ LET existing == FindUnique(ShopOrderId(runs[i].shop, runs[i].orderId), marker)
     IN runs' = [runs EXCEPT ![i] =
                   IF runs[i].kind = "paid"
                     THEN (IF existing THEN Finish([@ EXCEPT !.found = TRUE], 200)
                           ELSE [@ EXCEPT !.pc = "create"])
                     ELSE (IF existing THEN [@ EXCEPT !.found = TRUE, !.pc = "process"]
                           ELSE Finish(@, 200))]
  /\ UNCHANGED <<marker, qty, rules, locations, payload, lastBatch, calc>>

(* orders/paid: db.processedOrder.create({ data: { shop, orderId } }) *)
ShopCreate(i) ==
  /\ i <= Len(runs)
  /\ runs[i].kind = "paid" /\ runs[i].pc = "create"
  /\ LET key == ShopOrderId(runs[i].shop, runs[i].orderId)
     IN IF InsertConflicts(key, marker)
          THEN /\ runs' = [runs EXCEPT ![i] = Finish(@, 500)]
               /\ UNCHANGED marker
          ELSE /\ marker' = marker \cup {key}
               /\ runs' = [runs EXCEPT ![i] = [@ EXCEPT !.inserted = TRUE, !.pc = "process"]]
  /\ UNCHANGED <<qty, rules, locations, payload, lastBatch, calc>>

(* orders/paid from the rule load to the response, on the shop's store *)
ShopPaidProcess(i) ==
  /\ i <= Len(runs)
  /\ runs[i].kind = "paid" /\ runs[i].pc = "process"
  /\ \E assigned \in Locs :
        LET shop == runs[i].shop
            rulesMap == FindManyOfShop(shop, rules)
            locationId == ResolveLocation(assigned, locations)
            uniqueAdjustments ==
              UniqueAdjustments(PaidInventoryAdjustments(payload[<<shop, runs[i].orderId>>], 1,
                                                         locationId, rulesMap, Catalogue))
            quantityUpdates == QuantityUpdates(uniqueAdjustments, qty[shop])
            adjusted == SetQuantities(quantityUpdates, 1, qty[shop])
            pass == calculateMultipackInventory(NoFaults, rulesMap, locations, adjusted)
        IN /\ qty' = [qty EXCEPT ![shop] = pass.q]
           /\ runs' = [runs EXCEPT ![i] =
                         Finish([@ EXCEPT !.locationId = locationId,
                                          !.uniq = uniqueAdjustments,
                                          !.applied = Len(uniqueAdjustments) > 0], 200)]
  /\ UNCHANGED <<marker, rules, locations, payload, lastBatch, calc>>

(* orders/cancelled from the rule load to the marker delete and response *)
ShopCancelledProcess(i) ==
  /\ i <= Len(runs)
  /\ runs[i].kind = "cancelled" /\ runs[i].pc = "process"
  /\ \E assigned \in Locs :
        LET shop == runs[i].shop
            rulesMap == FindManyOfShop(shop, rules)
            locationId == ResolveLocation(assigned, locations)
            uniqueAdjustments ==
              UniqueAdjustments(CancelledInventoryAdjustments(payload[<<shop, runs[i].orderId>>],
                                                              1, locationId, rulesMap, Catalogue))
            quantityUpdates == QuantityUpdates(uniqueAdjustments, qty[shop])
        IN /\ qty' = [qty EXCEPT ![shop] = SetQuantities(quantityUpdates, 1, @)]
           /\ marker' = DeleteRow(ShopOrderId(shop, runs[i].orderId), marker)
           /\ runs' = [runs EXCEPT ![i] =
                         Finish([@ EXCEPT !.locationId = locationId,
                                          !.uniq = uniqueAdjustments,
                                          !.applied = Len(uniqueAdjustments) > 0,
                                          !.deleted = TRUE], 200)]
  /\ UNCHANGED <<rules, locations, payload, lastBatch, calc>>

NextShops ==
  \/ \E shop \in ShopPair, kind \in {"paid", "cancelled"}, orderId \in Orders :
        ShopDeliver(shop, kind, orderId)
  \/ \E i \in 1..MaxDeliveries :
        \/ ShopLookup(i)
        \/ ShopCreate(i)
        \/ ShopPaidProcess(i)
        \/ ShopCancelledProcess(i)

SpecShops == InitShops /\ [][NextShops]_vars

----------------------------------------------------------------------------
(* Properties *)

RunIds == 1..Len(runs)
PaidRuns(orderId) == {i \in RunIds : runs[i].kind = "paid" /\ runs[i].orderId = orderId}
CancelledRuns(orderId) ==
  {i \in RunIds : runs[i].kind = "cancelled" /\ runs[i].orderId = orderId}
Done(i) == runs[i].pc = "done"

(* no orders/cancelled delivery for the order arrived between deliveries i and j *)
NoCancelBetween(i, j) ==
  \A k \in RunIds : (i < k /\ k < j) => ~(k \in CancelledRuns(runs[i].orderId))

(* C1: two orders/paid deliveries for one order, the second starting after  *)
(* the first returned (SpecSeq), with no cancellation in between: the       *)
(* second finds the marker, issues no inventory mutation, inserts nothing   *)
(* and answers 200; the marker is still there; the batch of the order is    *)
(* submitted once if the first run had one to submit, and never twice.      *)
C1_SecondPaidIsNoOp ==
  \A o \in Orders : \A i \in PaidRuns(o), j \in PaidRuns(o) :
     (i < j /\ NoCancelBetween(i, j) /\ Done(j)) =>
        /\ runs[j].found
        /\ runs[j].writes = 0 /\ ~runs[j].submitted /\ ~runs[j].inserted
        /\ runs[j].status = 200
        /\ (CancelledRuns(o) = {} => o \in marker)
        /\ Cardinality({k \in PaidRuns(o) : i <= k /\ k <= j /\ runs[k].submitted})
             = (IF Len(runs[i].upd) > 0 THEN 1 ELSE 0)

C1_Witness ==
  /\ Len(runs) = 2
  /\ runs[1].kind = "paid" /\ runs[2].kind = "paid"
  /\ runs[1].applied /\ runs[1].status = 200
  /\ Done(2) /\ runs[2].found /\ runs[2].writes = 0

(* C2: as long as no cancellation has deleted the marker, of the orders/paid *)
(* deliveries for one order no two inserted the marker and no two submitted  *)
(* the batch, whatever the interleaving; once a delivery that did not find   *)
(* the marker on lookup is past its insert, exactly one delivery has         *)
(* inserted and the marker exists.                                           *)
C2_OneInsertOneBatch ==
  \A o \in Orders :
     (\A c \in CancelledRuns(o) : ~runs[c].deleted) =>
        /\ \A i \in PaidRuns(o), j \in PaidRuns(o) :
              i # j =>
                /\ ~(runs[i].inserted /\ runs[j].inserted)
                /\ ~(runs[i].submitted /\ runs[j].submitted)
        /\ (\E i \in PaidRuns(o) :
               ~runs[i].found /\ runs[i].pc \notin {"lookup", "create"})
           => /\ Cardinality({i \in PaidRuns(o) : runs[i].inserted}) = 1
              /\ o \in marker

C2_Witness ==
  \E i \in RunIds, j \in RunIds :
     /\ i # j
     /\ runs[i].kind = "paid" /\ runs[j].kind = "paid"
     /\ runs[i].orderId = runs[j].orderId
     /\ ~runs[i].found /\ ~runs[j].found
     /\ Done(i) /\ Done(j)
     /\ runs[i].inserted /\ runs[i].applied
     /\ ~runs[j].inserted /\ ~runs[j].submitted

(* C3: an orders/paid delivery that did not insert the marker   *)
(* - it found the marker, or its insert hit the unique index - answers 200.  *)
C3_LoserAnswersSuccess ==
  \A i \in RunIds :
     (runs[i].kind = "paid" /\ Done(i) /\ ~runs[i].inserted) => runs[i].status = 200

(* the cells an order run prepared a batch entry for *)
BatchCells(i) ==
  {<<runs[i].upd[k].inventoryItemId, runs[i].upd[k].locationId>> : k \in 1..Len(runs[i].upd)}

(* orders/paid delivery i, then orders/cancelled delivery i + 1 for the     *)
(* same order, both returned, both batches applied, nothing delivered since *)
PaidThenCancelled(i) ==
  /\ i + 1 = Len(runs)
  /\ runs[i].kind = "paid" /\ runs[i + 1].kind = "cancelled"
  /\ runs[i].orderId = runs[i + 1].orderId
  /\ Done(i) /\ Done(i + 1)
  /\ runs[i].applied /\ runs[i + 1].applied

Restored(i) ==
  \A c \in BatchCells(i) \cup BatchCells(i + 1) : qty[c] = runs[i].pre[c]

Unclamped(i) ==
  \A k \in 1..Len(runs[i].upd) :
     runs[i].upd[k].compareQuantity + runs[i].uniq[k].delta >= 0

(* no cell of the run's batch belongs to a variant whose rule the reconcile *)
(* pass computes                                                            *)
NotReconciled(i) ==
  \A k \in 1..Len(runs[i].upd) : \A v \in Variants :
     InventoryItemOf(v) = runs[i].upd[k].inventoryItemId => ~RuleIsComputed(rules[v])

C5_ReversalAppliedOnce ==
  \A o \in Orders :
     Cardinality({i \in PaidRuns(o) : runs[i].applied}) = 1
       => Cardinality({j \in CancelledRuns(o) : runs[j].afterPaid /\ runs[j].applied}) <= 1

(* C6: a marker exists only if more paid batches than reversal batches have *)
(* been applied for the order.  Stated for the states in which no           *)
(* orders/paid delivery of the order is still running, so that the window   *)
(* between the insert of the marker and the batch is not what refutes it,   *)
(* and for orders that have line items.                                     *)
C6_MarkerMeansApplied ==
  \A o \in marker :
     (Len(payload[o]) > 0 /\ \A i \in PaidRuns(o) : Done(i)) =>
        Cardinality({i \in PaidRuns(o) : runs[i].applied})
          > Cardinality({j \in CancelledRuns(o) : runs[j].applied})

(* the orders/paid run has returned 200 with the marker in place and no     *)
(* batch applied                                                            *)
C6_Witness ==
  \E o \in marker : \E i \in PaidRuns(o) :
     /\ runs[i].inserted /\ Done(i) /\ runs[i].status = 200
     /\ ~runs[i].applied
     /\ Len(payload[o]) > 0
     /\ \A j \in RunIds : j # i => ~runs[j].applied

(* C7: a reversal batch is applied for an order only when a    *)
(* paid batch for that order has been applied.                              *)
C7_ReversalOnlyAfterDeduction ==
  \A o \in Orders :
     (\E j \in CancelledRuns(o) : runs[j].applied)
       => \E i \in PaidRuns(o) : runs[i].applied

(* the availability the calculation is given for a target variant: the      *)
(* quantity on hand at the location, 0 for a variant without inventory item *)
Availability(targetVariantId, locationId) ==
  IF targetVariantId \in Variants THEN qty[<<"i" \o targetVariantId, locationId>>] ELSE 0

(* b = floor(a / m) for m >= 1, without division *)
IsFloorOf(b, a, m) == m * b <= a /\ a < m * (b + 1)

(* C8: the bundle count of a non-empty list of mappings is the least of the *)
(* floors floor(A(target) / multiplier): it is the floor for one mapping    *)
(* and no floor is smaller; for the empty list it is 0 (SpecBundle).        *)
C8_BundleCountIsMinOfFloors ==
  calc.done =>
    IF Len(calc.mappings) = 0 THEN calc.out = 0
    ELSE /\ \E k \in 1..Len(calc.mappings) :
               IsFloorOf(calc.out,
                         Availability(calc.mappings[k].targetVariantId, calc.locationId),
                         calc.mappings[k].multiplier)
         /\ \A k \in 1..Len(calc.mappings) : \A b \in -1..10 :
               IsFloorOf(b, Availability(calc.mappings[k].targetVariantId, calc.locationId),
                         calc.mappings[k].multiplier)
                 => calc.out <= b

C8_Witness ==
  /\ calc.done
  /\ calc.mappings = <<Mapping("A", 2), Mapping("B", 1)>>
  /\ qty[<<"iA", "L1">>] = 10 /\ qty[<<"iB", "L1">>] = 3
  /\ calc.out = 3

(* C9: every quantity of every set-quantities input is >= 0: the entries a  *)
(* paid or cancelled run prepared, and the entries of the last mutations    *)
(* issued (order batches and reconcile writes).                             *)
C9_SubmittedQuantitiesNonNegative ==
  /\ \A k \in 1..Len(lastBatch) : lastBatch[k].quantity >= 0
  /\ \A i \in RunIds : \A k \in 1..Len(runs[i].upd) : runs[i].upd[k].quantity >= 0

(* an order batch with an entry clamped at 0 was applied, and the reconcile *)
(* pass that followed wrote 0 for V where source A is oversold              *)
C9_Witness ==
  \E i \in RunIds :
     /\ runs[i].kind = "paid" /\ runs[i].applied /\ Done(i) /\ runs[i].status = 200
     /\ \E k \in 1..Len(runs[i].upd) :
           /\ runs[i].upd[k].compareQuantity + runs[i].uniq[k].delta < 0
           /\ runs[i].upd[k].quantity = 0
     /\ \E k \in 1..Len(lastBatch) :
           /\ lastBatch[k].inventoryItemId = "iV"
           /\ lastBatch[k].quantity = 0
           /\ qty[<<"iA", lastBatch[k].locationId>>] < 0

(* the deltas the handler computed for the run's order, before consolidation *)
RawAdjustments(i) ==
  IF runs[i].kind = "paid"
    THEN PaidInventoryAdjustments(payload[runs[i].orderId], 1, runs[i].locationId, rules, Catalogue)
  ELSE IF runs[i].kind = "cancelled"
    THEN CancelledInventoryAdjustments(payload[runs[i].orderId], 1, runs[i].locationId, rules, Catalogue)
  ELSE EarlierInventoryAdjustments(payload[runs[i].orderId], 1, runs[i].locationId, rules, Catalogue)

RECURSIVE DeltaSum(_, _, _, _)
DeltaSum(adjs, k, item, loc) ==
  IF k > Len(adjs) THEN 0
  ELSE (IF adjs[k].inventoryItemId = item /\ adjs[k].locationId = loc
          THEN adjs[k].delta ELSE 0)
       + DeltaSum(adjs, k + 1, item, loc)

(* C10: in the batch a paid or cancelled run submits, no (inventory item,  *)
(* location) pair appears twice, every pair the handler computed a delta    *)
(* for appears, and the entry of a pair carries the sum of all deltas       *)
(* computed for it: quantity = max(0, compareQuantity + sum).               *)
C10_BatchIsConsolidated ==
  \A i \in RunIds :
     runs[i].submitted =>
       LET raw == RawAdjustments(i)
           upd == runs[i].upd
       IN /\ \A k \in 1..Len(upd), l \in 1..Len(upd) :
               (upd[k].inventoryItemId = upd[l].inventoryItemId
                /\ upd[k].locationId = upd[l].locationId) => k = l
          /\ \A r \in 1..Len(raw) : <<raw[r].inventoryItemId, raw[r].locationId>> \in BatchCells(i)
          /\ \A k \in 1..Len(upd) :
               upd[k].quantity =
                 Max(0, upd[k].compareQuantity
                        + DeltaSum(raw, 1, upd[k].inventoryItemId, upd[k].locationId))

(* two line items of the variety pack: a submitted batch of six entries    *)
(* with a pair named twice                                                  *)
C10_Witness ==
  \E i \in RunIds :
     /\ runs[i].submitted
     /\ Len(runs[i].upd) = 6
     /\ \E k \in 1..6, l \in 1..6 :
           /\ k < l
           /\ runs[i].upd[k].inventoryItemId = runs[i].upd[l].inventoryItemId
           /\ runs[i].upd[k].locationId = runs[i].upd[l].locationId

----------------------------------------------------------------------------
(* The reconcile pass (SpecReconcile) *)

LevelRuns == {i \in RunIds : runs[i].kind = "inventory_levels_update"}

(* the stored mappings of a rule, <<>> when the column is null or unparsable *)
MappingsOf(rule) ==
  IF rule.variantId # Null /\ ParseOk(rule.deductionMappings)
    THEN ParseValue(rule.deductionMappings) ELSE <<>>

SelfReferential(rule) ==
  \E k \in 1..Len(MappingsOf(rule)) : MappingsOf(rule)[k].targetVariantId = rule.variantId

OtherTargetsOnly(rule) ==
  /\ Len(MappingsOf(rule)) > 0
  /\ \A k \in 1..Len(MappingsOf(rule)) : MappingsOf(rule)[k].targetVariantId # rule.variantId

(* run i sent no entry for the variant and left its quantity at every location *)
Untouched(i, v) ==
  /\ \A k \in 1..Len(runs[i].sent) : runs[i].sent[k].inventoryItemId # InventoryItemOf(v)
  /\ \A loc \in Locs :
        runs[i].post[<<InventoryItemOf(v), loc>>] = runs[i].pre[<<InventoryItemOf(v), loc>>]

C12_ToggleOffNeverWritten ==
  \A i \in LevelRuns : \A v \in Variants :
     (/\ OtherTargetsOnly(runs[i].rulesMap[v])
      /\ ~runs[i].rulesMap[v].calculateInventoryForSelfMapping)
     => Untouched(i, v)

(* a fault-free pass wrote another variant and left the toggled-off rule's  *)
(* variant at a quantity that is not its bundle count                       *)
C12_Witness ==
  \E i \in LevelRuns : \E v \in Variants : \E loc \in Locs :
     /\ runs[i].passes = 1 /\ runs[i].faults = NoFaults
     /\ Len(runs[i].sent) > 0
     /\ OtherTargetsOnly(runs[i].rulesMap[v])
     /\ ~runs[i].rulesMap[v].calculateInventoryForSelfMapping
     /\ runs[i].post[<<InventoryItemOf(v), loc>>]
          # Max(0, calculateBundlesForVariant(MappingsOf(runs[i].rulesMap[v]), loc, runs[i].post))

(* C13: calculateMultipackInventory returns normally whichever of its calls *)
(* failed.                                                                  *)
C13_PassNeverThrows ==
  \A i \in LevelRuns : runs[i].passes = 1 => runs[i].passResult = "returned"

(* one pass whose rule-store read threw and one whose writes all threw *)
C13_Witness ==
  \E i \in LevelRuns, j \in LevelRuns :
     /\ runs[i].passes = 1 /\ runs[i].faults.kind = "rules"
     /\ runs[j].passes = 1 /\ runs[j].faults.kind = "throw"
     /\ Len(runs[j].attempted) > 0 /\ Len(runs[j].sent) = 0

(* the eligible (rule, location) pairs of run i's pass, in processing order *)
EligiblePairs(i) == ReconcilePairs(runs[i].rulesMap, getAllActiveLocations(locations), 1)

PairCell(pair) == <<InventoryItemOf(pair.variantId), pair.locationId>>

(* C14: in a pass that reached its rule loop, every eligible pair is        *)
(* processed whatever failed for the others (an unparsable rule, failed     *)
(* reads, a rejected or throwing write): each pair without a fault ends at  *)
(* its clamped bundle count, with an entry sent for it, and a pair whose    *)
(* write failed keeps the quantity it had.                                  *)
C14_PairFailuresAreIsolated ==
  \A i \in LevelRuns :
     (runs[i].passes = 1 /\ runs[i].faults.kind \notin {"rules", "locations"}) =>
        LET pairs == EligiblePairs(i)
        IN /\ runs[i].attempted = pairs
           /\ \A k \in 1..Len(pairs) :
                IF k \in runs[i].faults.pairs /\ runs[i].faults.kind \in {"rejected", "throw"}
                  THEN runs[i].post[PairCell(pairs[k])] = runs[i].pre[PairCell(pairs[k])]
                ELSE IF k \in runs[i].faults.pairs
                  THEN runs[i].post[PairCell(pairs[k])] = 0
                ELSE /\ runs[i].post[PairCell(pairs[k])]
                          = Max(0, calculateBundlesForVariant(
                                     MappingsOf(runs[i].rulesMap[pairs[k].variantId]),
                                     pairs[k].locationId, runs[i].post))
                     /\ \E e \in 1..Len(runs[i].sent) :
                           /\ runs[i].sent[e].inventoryItemId = PairCell(pairs[k])[1]
                           /\ runs[i].sent[e].locationId = PairCell(pairs[k])[2]

(* four eligible pairs, the write of the second threw, the other three were *)
(* written and the third changed a quantity                                 *)
C14_Witness ==
  \E i \in LevelRuns :
     /\ runs[i].faults = [kind |-> "throw", pairs |-> {2}]
     /\ Len(runs[i].attempted) = 4
     /\ Len(runs[i].sent) = 3
     /\ runs[i].sent[2].inventoryItemId = PairCell(EligiblePairs(i)[3])[1]
     /\ runs[i].sent[2].quantity # runs[i].sent[2].compareQuantity

(* C17: every inventory_levels/update delivery with a session invokes one   *)
(* reconcile pass, whatever the payload, and answers 200 whether the pass   *)
(* succeeded or failed.                                                     *)
C17_LevelUpdateAlwaysReconciles ==
  \A i \in LevelRuns :
     runs[i].session => (runs[i].passes = 1 /\ runs[i].status = 200)

(* a delivery with an empty payload whose pass failed at the rule-store read *)
C17_Witness ==
  \E i \in LevelRuns :
     /\ runs[i].session
     /\ runs[i].levelPayload.inventory_item_id = Null
     /\ runs[i].faults.kind = "rules"
     /\ runs[i].passes = 1 /\ runs[i].status = 200

----------------------------------------------------------------------------
(* Responses of the order handlers *)

(* C15: an orders/paid or orders/cancelled delivery that has returned       *)
(* answered with a success status (deliveries here carry a session, so 401  *)
(* does not occur).                                                         *)
C15_OrderHandlersAnswerSuccess ==
  \A i \in RunIds :
     (runs[i].kind \in {"paid", "cancelled"} /\ Done(i)) => runs[i].status = 200

(* the batch entry of run i at position k is for a variant that no rule     *)
(* makes the pass compute                                                   *)
EntryNotComputed(i, k) ==
  \A v \in Variants :
     InventoryItemOf(v) = runs[i].upd[k].inventoryItemId => ~RuleIsComputed(rules[v])

----------------------------------------------------------------------------
(* Rule configuration *)

ConfigRuns == {i \in RunIds : runs[i].kind \in {"config", "config_earlier"}}

(* C18: every request to the configuration action that wrote the rule table  *)
(* (a save that passed validation, a delete) ran one reconcile pass after    *)
(* the write and returned success, also when the pass failed, and the write  *)
(* is in the rule table when the action returns.                             *)
C18_RuleWriteIsFollowedByPass ==
  \A i \in ConfigRuns :
     runs[i].wrote =>
       /\ runs[i].passes = 1
       /\ runs[i].result = "success"
       /\ i = Len(runs) => rules = runs[i].rulesWritten

(* a save through the earlier action changed a rule and no pass followed *)
C18_Witness ==
  \E i \in ConfigRuns :
     /\ runs[i].kind = "config_earlier"
     /\ runs[i].form.action = "save"
     /\ runs[i].wrote
     /\ runs[i].rulesWritten # runs[i].rulesBefore
     /\ runs[i].passes = 0

(* the same statement for the action that stores deductionMappings alone *)
CurrentConfigRuns == {i \in RunIds : runs[i].kind = "config"}
RuleWriteIsFollowedByPassInCurrentAction ==
  \A i \in CurrentConfigRuns :
     runs[i].wrote =>
       /\ runs[i].passes = 1
       /\ runs[i].result = "success"
       /\ i = Len(runs) => rules = runs[i].rulesWritten
FailedPassAfterSaveAndDelete ==
  /\ \E i \in CurrentConfigRuns :
        runs[i].form.action = "save" /\ runs[i].wrote /\ runs[i].passFailed
  /\ \E i \in CurrentConfigRuns :
        runs[i].form.action = "delete" /\ runs[i].wrote /\ runs[i].passFailed

----------------------------------------------------------------------------
(* The scheduled sync *)

CronRuns == {i \in RunIds : runs[i].kind = "cron"}
ShopsWithRules(rows) == {rows[k] : k \in 1..Len(rows)}
TimesAttempted(i, shop) ==
  Cardinality({k \in 1..Len(runs[i].attempted) : runs[i].attempted[k] = shop})

(* C19: a run of the scheduled sync that passed the secret check and got     *)
(* its list of shops turns to every shop that has a rule row exactly once,   *)
(* whatever happened for the shops before it (no session, no access token,   *)
(* an exception), and answers 200 with one result per shop, in which         *)
(* successful + failed = shopsProcessed = the number of those shops; while   *)
(* it runs no shop is attempted twice or out of the list.                    *)
C19_EveryShopAttemptedOnce ==
  \A i \in CronRuns :
     LET r == runs[i]
         shops == ShopsWithRules(r.rows)
     IN /\ \A s \in Shops : TimesAttempted(i, s) <= (IF s \in shops THEN 1 ELSE 0)
        /\ (r.pc = "done" /\ r.status = 200) =>
              /\ r.authorized
              /\ \A s \in shops : TimesAttempted(i, s) = 1
              /\ Len(r.body.results) = Cardinality(shops)
              /\ \A s \in shops :
                    Cardinality({k \in 1..Len(r.body.results) :
                                   r.body.results[k].shop = s}) = 1
              /\ r.body.shopsProcessed = Cardinality(shops)
              /\ r.body.successful + r.body.failed = r.body.shopsProcessed
              /\ r.body.successful =
                    Cardinality({s \in shops : ShopReachesPass(r.sessionsOf[s], r.throwsOf[s])})

(* a finished run over three shops whose first shop had no session, whose    *)
(* second threw, and whose third was reconciled                              *)
C19_Witness ==
  \E i \in CronRuns :
     /\ runs[i].pc = "done" /\ runs[i].status = 200
     /\ Len(runs[i].body.results) = 3
     /\ runs[i].body.results[1].error = "No active session"
     /\ runs[i].body.results[2].error = "exception"
     /\ runs[i].body.results[3].success
     /\ runs[i].body.failed = 2

----------------------------------------------------------------------------
(* Paying an order again after its cancellation *)

(* orders/paid delivery i, orders/cancelled delivery i + 1 and orders/paid   *)
(* delivery i + 2 for one order, one after the other; the first inserted     *)
(* the marker, the cancellation deleted it, and the third has returned       *)
PaidCancelledPaid(i) ==
  /\ i + 2 <= Len(runs)
  /\ runs[i].kind = "paid" /\ runs[i + 1].kind = "cancelled" /\ runs[i + 2].kind = "paid"
  /\ runs[i].orderId = runs[i + 1].orderId /\ runs[i].orderId = runs[i + 2].orderId
  /\ runs[i].inserted /\ runs[i + 1].deleted
  /\ Done(i + 2)

(* every remote call of the three runs succeeded: the batches were applied   *)
(* at one location and no reconcile pass failed                              *)
AllThreeWentThrough(i) ==
  /\ runs[i].applied /\ runs[i + 1].applied /\ runs[i + 2].applied
  /\ runs[i].locationId = runs[i + 1].locationId
  /\ runs[i].locationId = runs[i + 2].locationId
  /\ ~runs[i].passFailed /\ ~runs[i + 2].passFailed
  /\ runs[i].status = 200 /\ runs[i + 1].status = 200 /\ runs[i + 2].status = 200

----------------------------------------------------------------------------
(* Rule interpretation *)

Interpreted == calc.paid.done /\ calc.cancelled.done /\ calc.earlier.done
TheRule == rules[calc.lineItem.variant_id]
Managed == calc.lineItem.variant_inventory_management = "shopify"
OwnItem == Answer(calc.lookup, calc.lineItem.variant_id)

Negation(adjustments) ==
  [k \in 1..Len(adjustments) |->
     Adj(adjustments[k].inventoryItemId, adjustments[k].locationId, -adjustments[k].delta)]

(* C21: for one line item, location, rule and one set of lookup answers, the *)
(* list of deltas orders/cancelled computes is the list orders/paid          *)
(* computes with every delta negated - the same items at the same location   *)
(* in the same order - in every rule branch, and the one handler throws      *)
(* exactly when the other does.                                              *)
C21_ReversalIsExactNegation ==
  (calc.paid.done /\ calc.cancelled.done) =>
     /\ calc.cancelled.threw = calc.paid.threw
     /\ calc.cancelled.adjustments = Negation(calc.paid.adjustments)

(* the parse-failure fallback to a legacy variety pack, with three deltas *)
C21_Witness ==
  /\ calc.paid.done /\ calc.cancelled.done
  /\ TheRule # NoRule
  /\ TheRule.deductionMappings = BadJson
  /\ TheRule.type = "variety_pack"
  /\ Len(calc.paid.adjustments) = 3
  /\ calc.paid.adjustments[3].delta = calc.lineItem.quantity
  /\ calc.cancelled.adjustments[3].delta = -calc.lineItem.quantity

----------------------------------------------------------------------------
(* The marker as the boundary of an orders/paid run *)

NoMarkerDeleted(o) == \A c \in CancelledRuns(o) : ~runs[c].deleted

(* the run inserted the marker and is stopped, or still, between the insert  *)
(* and an applied batch                                                      *)
StoppedAfterInsert(i) ==
  /\ runs[i].kind = "paid" /\ runs[i].inserted /\ ~runs[i].applied
  /\ \/ runs[i].pc \in {"prepare", "submit"}
     \/ runs[i].pc = "done" /\ runs[i].status = 500

(* C22: an orders/paid run has inserted the marker before it issues any      *)
(* inventory mutation; and while no cancellation has deleted the marker, an  *)
(* orders/paid delivery that arrives when the marker exists - in particular  *)
(* after a run that stopped between its insert and its batch - finds it,     *)
(* inserts nothing and issues no mutation, and at most one orders/paid run   *)
(* of the order has had its batch applied.                                   *)
C22_MarkerFirstThenNoOp ==
  \A o \in Orders :
     /\ \A i \in PaidRuns(o) : (runs[i].submitted \/ runs[i].writes > 0) => runs[i].inserted
     /\ NoMarkerDeleted(o) =>
          /\ \A j \in PaidRuns(o) :
                (runs[j].markerAtArrival /\ Done(j)) =>
                   /\ runs[j].found /\ ~runs[j].inserted
                   /\ ~runs[j].submitted /\ runs[j].writes = 0
                   /\ runs[j].status = 200
          /\ Cardinality({i \in PaidRuns(o) : runs[i].applied}) <= 1

(* a run threw between its insert and its batch, another is stuck there, and *)
(* a delivery that arrived afterwards was a no-op; nothing was deducted      *)
C22_Witness ==
  \E i \in RunIds, j \in RunIds :
     /\ i < j
     /\ StoppedAfterInsert(i) /\ runs[i].pc = "done"
     /\ runs[j].kind = "paid" /\ runs[j].orderId = runs[i].orderId
     /\ runs[j].markerAtArrival /\ Done(j) /\ runs[j].found /\ runs[j].writes = 0
     /\ NoMarkerDeleted(runs[i].orderId)
     /\ \A k \in PaidRuns(runs[i].orderId) : ~runs[k].applied

----------------------------------------------------------------------------
(* Location resolution *)

OrderRuns == {i \in RunIds : runs[i].kind \in {"paid", "cancelled", "paid_earlier"}}

(* the run is past its location step: it had line items to work on and has   *)
(* either resolved a location or given up                                    *)
PastLocationStep(i) ==
  /\ Len(payload[runs[i].orderId]) > 0
  /\ IF runs[i].kind = "cancelled"
       THEN runs[i].found /\ runs[i].pc \notin {"lookup", "prepare"}
       ELSE runs[i].inserted /\ runs[i].pc \notin {"lookup", "create", "prepare"}

ShopHasActiveLocation == Len(getAllActiveLocations(locations)) > 0

(* C23: while the shop has an active location, wherever it stands in the     *)
(* shop's list, no paid or cancelled run gives up for want of a location:    *)
(* a run past its location step has resolved one (the assigned location, or  *)
(* an active location of the shop when the order has none assigned).         *)
C23_FallbackFindsActiveLocation ==
  \A i \in OrderRuns :
     (PastLocationStep(i) /\ ShopHasActiveLocation) =>
        runs[i].locationId # Null

(* an orders/paid run returned without location although the second listed   *)
(* location is active                                                        *)
C23_Witness ==
  \E i \in OrderRuns :
     /\ runs[i].kind = "paid"
     /\ PastLocationStep(i) /\ Done(i)
     /\ runs[i].locationId = Null
     /\ ~locations[1].isActive /\ locations[2].isActive
     /\ runs[i].writes = 0 /\ runs[i].status = 200

----------------------------------------------------------------------------
(* Runs that resolve no location *)

(* no orders/cancelled run that arrived between deliveries i and j deleted   *)
(* the marker                                                                *)
NoDeleteBetween(i, j) ==
  \A k \in CancelledRuns(runs[i].orderId) : (i < k /\ k < j) => ~runs[k].deleted

(* no orders/paid delivery for the order arrived between deliveries i and j  *)
NoPaidBetween(i, j) ==
  \A k \in PaidRuns(runs[i].orderId) : ~(i < k /\ k < j)

LastRun(i) == i = Len(runs)

(* the run had line items, got past its location step and has no location   *)
WithoutLocation(i) == PastLocationStep(i) /\ runs[i].locationId = Null

(* C24: an orders/paid run that resolves no location has returned 200       *)
(* having submitted no adjustment and issued no inventory mutation; the      *)
(* marker it inserted is still there when it returns; and every later        *)
(* orders/paid delivery of the order, as long as no cancellation deleted the *)
(* marker in between, finds the marker, inserts nothing, issues no mutation  *)
(* and answers 200.                                                          *)
C24_NoLocationLeavesMarker ==
  \A o \in Orders : \A i \in PaidRuns(o) :
     WithoutLocation(i) =>
        /\ Done(i) /\ runs[i].status = 200
        /\ runs[i].inserted
        /\ ~runs[i].submitted /\ runs[i].writes = 0 /\ runs[i].uniq = <<>>
        /\ runs[i].passes = 0
        /\ (LastRun(i) => (o \in marker /\ qty = runs[i].pre))
        /\ \A j \in PaidRuns(o) :
              (i < j /\ Done(j) /\ NoDeleteBetween(i, j)) =>
                 /\ runs[j].found /\ ~runs[j].inserted
                 /\ ~runs[j].submitted /\ runs[j].writes = 0
                 /\ runs[j].status = 200

(* a run returned without location, and a later delivery of the same order   *)
(* was a no-op; the stock was never touched                                  *)
C24_Witness ==
  \E i \in RunIds, j \in RunIds :
     /\ i < j /\ LastRun(j)
     /\ runs[i].kind = "paid" /\ WithoutLocation(i) /\ runs[i].status = 200
     /\ runs[j].kind = "paid" /\ runs[j].orderId = runs[i].orderId
     /\ Done(j) /\ runs[j].found /\ runs[j].writes = 0
     /\ runs[i].orderId \in marker
     /\ qty = runs[i].pre

(* C25: an orders/cancelled run that found the marker and resolves no        *)
(* location deletes the marker and returns 200 having issued no inventory    *)
(* mutation, so the quantities stay as the deduction left them; every later  *)
(* orders/cancelled delivery of the order, with no orders/paid delivery in   *)
(* between, finds no marker and does nothing.                                *)
C25_NoLocationDropsMarker ==
  \A o \in Orders : \A i \in CancelledRuns(o) :
     (WithoutLocation(i) /\ Done(i)) =>
        /\ runs[i].found /\ runs[i].deleted /\ runs[i].status = 200
        /\ ~runs[i].submitted /\ runs[i].writes = 0
        /\ (LastRun(i) => (o \notin marker /\ qty = runs[i].pre))
        /\ \A j \in CancelledRuns(o) :
              (i < j /\ Done(j) /\ NoPaidBetween(i, j)) =>
                 /\ ~runs[j].found /\ ~runs[j].deleted
                 /\ ~runs[j].submitted /\ runs[j].writes = 0
                 /\ runs[j].status = 200

(* the deduction of the order was applied, its cancellation resolved no      *)
(* location and dropped the marker, and a second cancellation did nothing    *)
C25_Witness ==
  \E p \in RunIds, i \in RunIds, j \in RunIds :
     /\ p < i /\ i < j /\ LastRun(j)
     /\ runs[p].kind = "paid" /\ runs[p].applied
     /\ runs[i].kind = "cancelled" /\ runs[i].orderId = runs[p].orderId
     /\ WithoutLocation(i) /\ runs[i].deleted /\ runs[i].writes = 0
     /\ runs[j].kind = "cancelled" /\ runs[j].orderId = runs[p].orderId
     /\ Done(j) /\ ~runs[j].found /\ runs[j].status = 200
     /\ qty = runs[i].pre /\ qty # runs[p].pre

----------------------------------------------------------------------------
(* Cancellations *)

(* C26: an orders/cancelled run that finds no marker returns 200 having      *)
(* issued no inventory mutation and neither created nor deleted a marker:    *)
(* when it returns, quantities and markers are as it found them.             *)
C26_UnprocessedCancelIsNoOp ==
  \A o \in Orders : \A i \in CancelledRuns(o) :
     (Done(i) /\ ~runs[i].found) =>
        /\ runs[i].status = 200
        /\ ~runs[i].submitted /\ runs[i].writes = 0 /\ runs[i].uniq = <<>>
        /\ ~runs[i].deleted /\ ~runs[i].inserted
        /\ (LastRun(i) => (qty = runs[i].pre /\ o \notin marker))

(* a reversal was applied and its marker deleted; the second cancellation    *)
(* of the order found no marker and left the restored quantities alone       *)
C26_Witness ==
  \E i \in RunIds, j \in RunIds :
     /\ i < j /\ LastRun(j)
     /\ runs[i].kind = "cancelled" /\ runs[i].applied /\ runs[i].deleted
     /\ runs[j].kind = "cancelled" /\ runs[j].orderId = runs[i].orderId
     /\ Done(j) /\ ~runs[j].found /\ runs[j].writes = 0
     /\ qty = runs[j].pre /\ qty # runs[i].pre

(* the run found the marker, submitted its reversal, and the reversal was    *)
(* not applied: the mutation answered userErrors (or its compare failed), or *)
(* the request failed                                                        *)
ReversalFailed(i) ==
  /\ runs[i].kind = "cancelled" /\ runs[i].found
  /\ runs[i].submitted /\ ~runs[i].applied

(* C27: an orders/cancelled run that found the marker and whose reversal     *)
(* failed has deleted the marker when it returns.                            *)
C27_FailedReversalDeletesMarker ==
  \A i \in RunIds : (ReversalFailed(i) /\ Done(i)) => runs[i].deleted

(* the mutation request failed: the run answered 500 and the marker of the   *)
(* order is still there, the stock as the deduction left it                  *)
C27_Witness ==
  \E i \in RunIds :
     /\ LastRun(i) /\ ReversalFailed(i) /\ Done(i)
     /\ runs[i].status = 500 /\ ~runs[i].deleted
     /\ runs[i].orderId \in marker
     /\ qty = runs[i].pre

----------------------------------------------------------------------------
(* The deductionMappings branch and the legacy fields *)

IsItem(x) == x # Null /\ x # Throws

(* the rule of the ordered variant has deductionMappings that parse *)
MappingsParse ==
  /\ TheRule # NoRule
  /\ TheRule.deductionMappings # NullText
  /\ ParseOk(TheRule.deductionMappings)

TheMappings == ParseValue(TheRule.deductionMappings)

(* the mappings whose target variant has an inventory item *)
ResolvedMappings ==
  SelectSeq(TheMappings, LAMBDA m : Answer(calc.lookup, m.targetVariantId) # Null)

NoTargetLookupThrows == FirstThrow(calc.lookup, TargetIds(TheMappings), 1) = 0

LegacyMultiplierRule ==
  /\ TheRule # NoRule
  /\ TheRule.type = "multiplier"
  /\ (TheRule.deductionMappings = NullText \/ ~ParseOk(TheRule.deductionMappings))

(* the earlier route reads type alone *)
EarlierMultiplierRule == TheRule # NoRule /\ TheRule.type = "multiplier"

OneOwnDelta(delta) == <<Adj(OwnItem, calc.locationId, delta)>>

(* -(q * (m - 1)) with the stored multiplier m *)
StoredFormula == -(calc.lineItem.quantity * (TheRule.multiplier - 1))

(* the same, a stored multiplier of 0 or null being read as 3 *)
DefaultedFormula ==
  IF TheRule.multiplier # 0 THEN StoredFormula ELSE -(calc.lineItem.quantity * 2)

(* C29: for a Shopify-managed line item of quantity q whose rule is a legacy *)
(* multiplier rule with stored multiplier m, orders/paid (either revision)   *)
(* computes exactly one delta, on the variant's own item at the resolved     *)
(* location: -(q * (m - 1)) for every stored m other than 0, and -(q * 2)    *)
(* when the stored multiplier is null or 0, which the handler reads as 3.    *)
C29_LegacyMultiplierDelta ==
  /\ (calc.paid.done /\ Managed /\ IsItem(OwnItem) /\ LegacyMultiplierRule) =>
        calc.paid.adjustments = OneOwnDelta(DefaultedFormula)
  /\ (calc.earlier.done /\ Managed /\ IsItem(OwnItem) /\ EarlierMultiplierRule) =>
        calc.earlier.adjustments = OneOwnDelta(DefaultedFormula)

(* C29 as stated: -(q * (m - 1)) for every stored value of m *)
C29_EveryStoredMultiplier ==
  /\ (calc.paid.done /\ Managed /\ IsItem(OwnItem) /\ LegacyMultiplierRule) =>
        calc.paid.adjustments = OneOwnDelta(StoredFormula)
  /\ (calc.earlier.done /\ Managed /\ IsItem(OwnItem) /\ EarlierMultiplierRule) =>
        calc.earlier.adjustments = OneOwnDelta(StoredFormula)

(* quantity 2 and stored multiplier 3 give the single delta -4, in both      *)
(* revisions                                                                 *)
C29_Witness ==
  /\ calc.paid.done /\ calc.earlier.done
  /\ Managed /\ IsItem(OwnItem) /\ LegacyMultiplierRule
  /\ calc.lineItem.quantity = 2 /\ TheRule.multiplier = 3
  /\ calc.paid.adjustments = OneOwnDelta(-4)
  /\ calc.earlier.adjustments = OneOwnDelta(-4)

(* the rule table with the legacy fields of every rule blanked *)
WithoutLegacy(rulesMap) ==
  [v \in DOMAIN rulesMap |->
     IF rulesMap[v] = NoRule THEN NoRule
     ELSE [rulesMap[v] EXCEPT !.type = Null, !.multiplier = 0,
                              !.varietyPackFlavorIds = NullText]]

(* what the handlers compute for the line item when the rule's legacy fields *)
(* are blank                                                                 *)
PaidIgnoringLegacy ==
  PaidLineItemAdjustments(calc.lineItem, calc.locationId, WithoutLegacy(rules), calc.lookup)
CancelledIgnoringLegacy ==
  CancelledLineItemAdjustments(calc.lineItem, calc.locationId, WithoutLegacy(rules),
                               calc.lookup)
EarlierIgnoringLegacy ==
  EarlierLineItemAdjustments(calc.lineItem, calc.locationId, WithoutLegacy(rules),
                             calc.lookup)

Returned(c) == c.done /\ ~c.threw

(* C30: a rule whose deductionMappings parses to a non-empty list never uses *)
(* its legacy fields - each handler computes for the line item what it       *)
(* computes with type, multiplier and varietyPackFlavorIds blank - and a     *)
(* rule whose deductionMappings parses to an empty list gives no adjustment  *)
(* for the line item, in orders/paid (both revisions) and orders/cancelled.  *)
C30_LegacyOnlyWithoutMappings ==
  /\ (MappingsParse /\ Len(TheMappings) > 0) =>
        /\ Returned(calc.paid) => calc.paid.adjustments = PaidIgnoringLegacy
        /\ Returned(calc.cancelled) => calc.cancelled.adjustments = CancelledIgnoringLegacy
        /\ Returned(calc.earlier) => calc.earlier.adjustments = EarlierIgnoringLegacy
  /\ (MappingsParse /\ Len(TheMappings) = 0) =>
        /\ Returned(calc.paid) => calc.paid.adjustments = <<>>
        /\ Returned(calc.cancelled) => calc.cancelled.adjustments = <<>>
        /\ Returned(calc.earlier) => calc.earlier.adjustments = <<>>

(* the current orders/paid handler, a rule with two parsable mappings and    *)
(* type multiplier: the lookup of the second target threw, and the list      *)
(* holds the first mapping's delta followed by the legacy multiplier delta   *)
C30_Witness ==
  /\ Returned(calc.paid)
  /\ Managed /\ IsItem(OwnItem)
  /\ MappingsParse /\ Len(TheMappings) = 2
  /\ TheRule.type = "multiplier" /\ TheRule.multiplier = 3
  /\ FirstThrow(calc.lookup, TargetIds(TheMappings), 1) = 2
  /\ Len(calc.paid.adjustments) = 2
  /\ calc.paid.adjustments[1].inventoryItemId # OwnItem
  /\ calc.paid.adjustments[2] =
        Adj(OwnItem, calc.locationId, -(calc.lineItem.quantity * 2))

(* the same, handler by handler *)
CurrentHandlersIgnoreLegacy ==
  (MappingsParse /\ Len(TheMappings) > 0) =>
     /\ Returned(calc.paid) => calc.paid.adjustments = PaidIgnoringLegacy
     /\ Returned(calc.cancelled) => calc.cancelled.adjustments = CancelledIgnoringLegacy

CurrentHandlersIgnoreLegacyWhenLookupsAnswer ==
  (MappingsParse /\ Len(TheMappings) > 0 /\ NoTargetLookupThrows) =>
     /\ Returned(calc.paid) => calc.paid.adjustments = PaidIgnoringLegacy
     /\ Returned(calc.cancelled) => calc.cancelled.adjustments = CancelledIgnoringLegacy

EmptyListGivesNoAdjustment ==
  (MappingsParse /\ Len(TheMappings) = 0) =>
     /\ Returned(calc.paid) => calc.paid.adjustments = <<>>
     /\ Returned(calc.cancelled) => calc.cancelled.adjustments = <<>>

EarlierRouteIgnoresLegacy ==
  MappingsParse =>
     (Returned(calc.earlier) =>
        calc.earlier.adjustments =
          (IF Len(TheMappings) > 0 THEN EarlierIgnoringLegacy ELSE <<>>))

----------------------------------------------------------------------------
(* The sign of the bundle count *)

MappedTargets == {calc.mappings[k].targetVariantId : k \in 1..Len(calc.mappings)}

(* C32: the bundle count calculateBundlesForVariant returns is never         *)
(* negative, whatever quantities the targets report; and when the            *)
(* availability lookup of one of the targets fails, the count is 0.          *)
C32_BundleCountNeverNegative ==
  /\ calc.done => calc.out >= 0
  /\ (calc.doneFailed /\ calc.failed \cap MappedTargets # {}) => calc.outFailed = 0

(* target A reports -1 available (oversold) and the rule takes 2 of A per    *)
(* bundle: the count is floor(-1 / 2) = -1                                   *)
C32_Witness ==
  /\ calc.done
  /\ calc.mappings = <<Mapping("A", 2)>>
  /\ qty[<<"iA", calc.locationId>>] = -1
  /\ calc.out = -1

(* the same for targets that report no negative quantity *)
NoTargetOversold ==
  \A v \in MappedTargets : Availability(v, calc.locationId) >= 0

BundleCountNonNegativeUnlessOversold ==
  NoTargetOversold =>
     /\ calc.done => calc.out >= 0
     /\ (calc.doneFailed /\ calc.failed \cap MappedTargets # {}) => calc.outFailed = 0

(* a failed lookup never raises the count above 0, and the count that is     *)
(* written is clamped                                                        *)
FailedLookupCapsCount ==
  (calc.doneFailed /\ calc.failed \cap MappedTargets # {}) =>
     /\ calc.outFailed <= 0
     /\ ReconcileQuantity(calc.outFailed) = 0

----------------------------------------------------------------------------
(* Which inventory items an order handler touches *)

LineItemsOf(o) == {payload[o][k] : k \in 1..Len(payload[o])}

(* the line items the handlers work on: managed by Shopify, with a rule *)
RuleMatchedLineItems(o) ==
  {li \in LineItemsOf(o) :
     li.variant_inventory_management = "shopify" /\ rules[li.variant_id] # NoRule}

Range(xs) == {xs[k] : k \in 1..Len(xs)}

(* the variant of a rule and the variants it names as targets or flavors *)
VariantsOfRule(rule) ==
  {rule.variantId}
  \cup (IF ParseOk(rule.deductionMappings)
          THEN {m.targetVariantId : m \in Range(ParseValue(rule.deductionMappings))}
          ELSE {})
  \cup (IF ParseOk(rule.varietyPackFlavorIds)
          THEN Range(ParseValue(rule.varietyPackFlavorIds))
          ELSE {})

ItemsOfOrderRules(o) ==
  {InventoryItemOf(v) :
     v \in UNION {VariantsOfRule(rules[li.variant_id]) : li \in RuleMatchedLineItems(o)}}

(* the quantities outside the items of the order's rules are those the       *)
(* delivery found                                                            *)
OthersUntouched(i) ==
  \A c \in Cells :
     c[1] \notin ItemsOfOrderRules(runs[i].orderId) => qty[c] = runs[i].pre[c]

(* C31: the batch an orders/paid or orders/cancelled run computes and        *)
(* submits names only inventory items of the rules of its rule-matched,      *)
(* Shopify-managed line items (the ordered variant, the rule's targets or    *)
(* flavors); an order with no such line item gives an empty batch and no     *)
(* mutation of the order.  Up to the end of the orders/cancelled run, and up *)
(* to the reconcile pass of the orders/paid run, no other item's quantity    *)
(* has changed.                                                              *)
C31_UnmatchedItemsUntouched ==
  \A o \in Orders : \A i \in PaidRuns(o) \cup CancelledRuns(o) :
     /\ \A k \in 1..Len(runs[i].uniq) :
           runs[i].uniq[k].inventoryItemId \in ItemsOfOrderRules(o)
     /\ \A k \in 1..Len(runs[i].upd) :
           runs[i].upd[k].inventoryItemId \in ItemsOfOrderRules(o)
     /\ RuleMatchedLineItems(o) = {} =>
           (runs[i].uniq = <<>> /\ runs[i].upd = <<>> /\ ~runs[i].submitted)
     /\ (LastRun(i) /\ (runs[i].kind = "cancelled" \/ runs[i].passes = 0)) =>
           OthersUntouched(i)

(* C31 as stated, for the whole handler: when an order handler returns, no   *)
(* item outside the order's rules has a new quantity                         *)
C31_HandlersWriteNothingElse ==
  \A o \in Orders : \A i \in PaidRuns(o) \cup CancelledRuns(o) :
     (LastRun(i) /\ Done(i)) => OthersUntouched(i)

(* an order of one unmanaged line item and one line item without rule next   *)
(* to a rule-matched one: the batch was applied and names the rule's item    *)
(* alone                                                                     *)
C31_Witness ==
  \E i \in RunIds :
     /\ runs[i].kind = "paid" /\ LastRun(i) /\ runs[i].applied
     /\ payload[runs[i].orderId] =
          <<LineItem("A", 1), LineItem("M", 1), UnmanagedLineItem("P", 1)>>
     /\ Len(runs[i].upd) = 1
     /\ runs[i].upd[1].inventoryItemId = "iM"
     /\ runs[i].passes = 0
     /\ OthersUntouched(i)

----------------------------------------------------------------------------
(* Which inventory a reconcile pass writes *)

(* the variants with a rule whose deductionMappings is not null *)
VariantsWithMappings(rulesMap) ==
  {v \in Variants : rulesMap[v] # NoRule /\ rulesMap[v].deductionMappings # NullText}

ActiveLocationIds == {locations[k].id : k \in {j \in 1..Len(locations) : locations[j].isActive}}

(* the cells a pass of run i may write *)
ReconcilableCells(i) ==
  {c \in Cells :
     /\ \E v \in VariantsWithMappings(runs[i].rulesMap) : c[1] = InventoryItemOf(v)
     /\ c[2] \in ActiveLocationIds}

(* C33: every entry a reconcile pass sends is for the inventory item of a    *)
(* variant that has a rule of the shop with non-null deductionMappings, at   *)
(* an active location, and no other quantity changes: a target variant      *)
(* without such a rule of its own is never written; with no such rule in    *)
(* the shop, or no active location, the pass sends nothing.                  *)
C33_PassWritesRuleVariantsOnly ==
  \A i \in LevelRuns :
     /\ \A k \in 1..Len(runs[i].sent) :
           <<runs[i].sent[k].inventoryItemId, runs[i].sent[k].locationId>>
              \in ReconcilableCells(i)
     /\ \A c \in Cells \ ReconcilableCells(i) : runs[i].post[c] = runs[i].pre[c]
     /\ (VariantsWithMappings(runs[i].rulesMap) = {} \/ ActiveLocationIds = {}) =>
           (runs[i].sent = <<>> /\ runs[i].post = runs[i].pre)

(* a fault-free pass wrote V at the one active location and left V at the    *)
(* inactive location and the targets A and B as they were                    *)
C33_Witness ==
  \E i \in LevelRuns :
     /\ runs[i].passes = 1 /\ runs[i].faults = NoFaults
     /\ ~locations[1].isActive /\ locations[2].isActive
     /\ \E k \in 1..Len(runs[i].sent) :
           /\ runs[i].sent[k].inventoryItemId = "iV"
           /\ runs[i].sent[k].locationId = locations[2].id
     /\ runs[i].post[<<"iV", locations[2].id>>] # runs[i].pre[<<"iV", locations[2].id>>]
     /\ runs[i].post[<<"iV", locations[1].id>>] = runs[i].pre[<<"iV", locations[1].id>>]
     /\ \A loc \in Locs : \A t \in {"iA", "iB"} :
           runs[i].post[<<t, loc>>] = runs[i].pre[<<t, loc>>]

(* passes over a shop without rule with deductionMappings, and over a shop   *)
(* without active location, were run and sent nothing                        *)
PassWithNothingToDo ==
  \E i \in LevelRuns :
     /\ runs[i].passes = 1 /\ runs[i].faults = NoFaults
     /\ VariantsWithMappings(runs[i].rulesMap) = {}
     /\ ActiveLocationIds # {}
     /\ runs[i].sent = <<>>

PassWithoutActiveLocation ==
  \E i \in LevelRuns :
     /\ runs[i].passes = 1 /\ runs[i].faults = NoFaults
     /\ VariantsWithMappings(runs[i].rulesMap) # {}
     /\ ActiveLocationIds = {}
     /\ runs[i].sent = <<>>

----------------------------------------------------------------------------
(* What the scheduled sync reports for a shop *)

(* the pass the run made for the shop of the state failed inside: its rule   *)
(* load or its location query threw, or a write it attempted was not made    *)
PassFailedInside(r) ==
  \/ r.passFault \in {"rules", "locations"}
  \/ r.passSent < r.passAttempted

(* C34: in the summary of the scheduled sync, the shop is reported with      *)
(* success = true only if its reconcile pass had no internal failure.        *)
C34_SuccessMeansPassSucceeded ==
  \A i \in CronRuns :
     (runs[i].pc = "done" /\ runs[i].status = 200) =>
        \A k \in 1..Len(runs[i].body.results) :
           (runs[i].body.results[k].shop = ThisShop /\ runs[i].body.results[k].success)
             => ~PassFailedInside(runs[i])

(* the rule load of the only shop's pass threw, and the summary counts the   *)
(* shop as successful and none as failed                                     *)
C34_Witness ==
  \E i \in CronRuns :
     /\ runs[i].pc = "done" /\ runs[i].status = 200
     /\ runs[i].uniqueShops = <<ThisShop>>
     /\ runs[i].passFault = "rules"
     /\ runs[i].body.results[1].success
     /\ runs[i].body.successful = 1 /\ runs[i].body.failed = 0

(* every write of the pass was rejected, and the shop is reported successful *)
RejectedWritesReportedSuccessful ==
  \E i \in CronRuns :
     /\ runs[i].pc = "done" /\ runs[i].status = 200
     /\ runs[i].passFault \in {"rejected", "throw"}
     /\ runs[i].passAttempted > 0 /\ runs[i].passSent = 0
     /\ \E k \in 1..Len(runs[i].body.results) :
           runs[i].body.results[k].shop = ThisShop /\ runs[i].body.results[k].success

(* a shop is reported as failed exactly when the loop body did not get as    *)
(* far as the pass                                                           *)
FailedMeansPassNotReached ==
  \A i \in CronRuns :
     (runs[i].pc = "done" /\ runs[i].status = 200) =>
        \A k \in 1..Len(runs[i].body.results) :
           LET res == runs[i].body.results[k]
           IN res.success <=>
                ShopReachesPass(runs[i].sessionsOf[res.shop], runs[i].throwsOf[res.shop])


(***************************************************************************)
(* Two orders deducting from the same item at the same location            *)
(***************************************************************************)
(* the consolidated delta of run i on cell c, 0 when the run has none *)
DeltaOn(i, c) ==
  IF c \in BatchCells(i)
    THEN LET k == CHOOSE n \in 1..Len(runs[i].upd) :
                     <<runs[i].upd[n].inventoryItemId, runs[i].upd[n].locationId>> = c
         IN runs[i].uniq[k].delta
    ELSE 0

TwoPaidOrdersDone(i, j) ==
  /\ i # j
  /\ Len(runs) = 2
  /\ runs[i].orderId # runs[j].orderId
  /\ Done(i) /\ Done(j)
  /\ runs[i].status = 200 /\ runs[j].status = 200

(* the cells both orders deduct from; the reconcile pass writes none of them *)
SharedDeductionCells(i, j) ==
  {c \in BatchCells(i) \cap BatchCells(j) :
     /\ DeltaOn(i, c) < 0 /\ DeltaOn(j, c) < 0
     /\ InitialQuantity("high", c[1]) + DeltaOn(i, c) + DeltaOn(j, c) >= 0}

(* C35: when two different orders have deducted from the same item at the  *)
(* same location and no clamping applies, the item ends at its initial     *)
(* quantity minus the sum of both orders' deltas, whatever the             *)
(* interleaving of the two quantity reads and compare-and-set writes.      *)
C35_NoLostDeduction ==
  \A i \in RunIds : \A j \in RunIds :
    TwoPaidOrdersDone(i, j) =>
      \A c \in SharedDeductionCells(i, j) :
        qty[c] = InitialQuantity("high", c[1]) + DeltaOn(i, c) + DeltaOn(j, c)

(* both runs read 5, the first write lands, the second is refused on its   *)
(* compareQuantity; both answer 200 and both markers stay                  *)
C35_Witness ==
  \E i \in RunIds : \E j \in RunIds :
    /\ TwoPaidOrdersDone(i, j)
    /\ runs[i].applied /\ runs[j].submitted /\ ~runs[j].applied
    /\ \E c \in SharedDeductionCells(i, j) :
          /\ DeltaOn(i, c) = -2 /\ DeltaOn(j, c) = -2
          /\ qty[c] = InitialQuantity("high", c[1]) - 2
    /\ {runs[i].orderId, runs[j].orderId} \subseteq marker

(* what the compare-and-set does give: the final quantity is the initial   *)
(* one plus the deltas of the batches that were applied                    *)
AppliedDeltaOn(i, c) == IF runs[i].applied THEN DeltaOn(i, c) ELSE 0

AppliedDeductionsAddUp ==
  \A i \in RunIds : \A j \in RunIds :
    TwoPaidOrdersDone(i, j) =>
      \A c \in SharedDeductionCells(i, j) :
        qty[c] = InitialQuantity("high", c[1]) + AppliedDeltaOn(i, c) + AppliedDeltaOn(j, c)

(* the refused batch is not retried: its run ends with one write attempt   *)
RefusedBatchNotRetried ==
  \A i \in RunIds :
    (Done(i) /\ runs[i].submitted /\ ~runs[i].applied) =>
      (runs[i].status = 200 /\ runs[i].orderId \in marker)


(***************************************************************************)
(* A rule edited or deleted between orders/paid and orders/cancelled       *)
(***************************************************************************)
IsConfigRun(k) == runs[k].kind = "config"

(* paid delivery i and cancelled delivery j of one order, both batches     *)
(* applied at one location, only rule edits in between                     *)
PaidEditedCancelled(i, j) ==
  /\ i < j
  /\ runs[i].kind = "paid" /\ runs[j].kind = "cancelled"
  /\ runs[i].orderId = runs[j].orderId
  /\ Done(i) /\ Done(j)
  /\ runs[i].applied /\ runs[j].applied
  /\ runs[i].locationId = runs[j].locationId
  /\ \A k \in RunIds : (i < k /\ k < j) => IsConfigRun(k)

ReversalNegates(i, j) ==
  \A c \in BatchCells(i) \cup BatchCells(j) : DeltaOn(j, c) = -DeltaOn(i, c)

(* C36: the deltas the cancelled handler applies are the negation of the   *)
(* deltas the paid handler applied for the order, also when the order's    *)
(* rule was edited or deleted between the two deliveries.                  *)
C36_ReversalNegatesAppliedDeltas ==
  \A i \in RunIds : \A j \in RunIds :
    PaidEditedCancelled(i, j) => ReversalNegates(i, j)

(* V ordered under mappings {A x 2, B x 1}, the rule saved as {B x 2}, the  *)
(* order cancelled: B gets 2 back per unit, A gets nothing back            *)
C36_Witness ==
  \E i \in RunIds : \E j \in RunIds :
    /\ PaidEditedCancelled(i, j)
    /\ j = i + 2 /\ runs[i + 1].result = "success"
    /\ runs[i + 1].form.variantId = "V" /\ runs[i + 1].form.action = "save"
    /\ \E loc \in Locs :
          /\ DeltaOn(i, <<InventoryItemOf("A"), loc>>) < 0
          /\ DeltaOn(j, <<InventoryItemOf("A"), loc>>) = 0
          /\ DeltaOn(j, <<InventoryItemOf("B"), loc>>) = -2 * DeltaOn(i, <<InventoryItemOf("B"), loc>>)

(* with no rule edit between the two deliveries the reversal is the negation *)
UneditedReversalNegates ==
  \A i \in RunIds :
    (i < Len(runs) /\ PaidEditedCancelled(i, i + 1)) => ReversalNegates(i, i + 1)

(* a deleted rule leaves the cancelled handler with nothing to reverse *)
DeletedRuleReversesNothing ==
  \E i \in RunIds : \E j \in RunIds :
    /\ i < j /\ j = i + 2
    /\ runs[i].kind = "paid" /\ runs[j].kind = "cancelled" /\ Done(j)
    /\ runs[i].applied /\ runs[i].uniq # <<>>
    /\ IsConfigRun(i + 1) /\ runs[i + 1].form.action = "delete" /\ runs[i + 1].wrote
    /\ runs[j].uniq = <<>> /\ ~runs[j].submitted
    /\ runs[j].status = 200


(***************************************************************************)
(* Two consecutive reconcile passes                                        *)
(***************************************************************************)
CleanPass(i) ==
  /\ runs[i].kind = "inventory_levels_update"
  /\ runs[i].passes = 1 /\ runs[i].faults = NoFaults

TwoCleanPasses(i) == i < Len(runs) /\ CleanPass(i) /\ CleanPass(i + 1)

Written(i) ==
  [k \in 1..Len(runs[i].sent) |->
     <<runs[i].sent[k].inventoryItemId, runs[i].sent[k].locationId, runs[i].sent[k].quantity>>]

SecondPassRepeatsFirst(i) == Written(i + 1) = Written(i) /\ runs[i + 1].post = runs[i].post

(* the mappings of v's rule name a variant that a rule computes *)
ReadsComputedVariant(v) ==
  /\ RuleIsComputed(rules[v])
  /\ \E k \in 1..Len(ParseValue(rules[v].deductionMappings)) :
        LET t == ParseValue(rules[v].deductionMappings)[k].targetVariantId
        IN t \in Variants /\ RuleIsComputed(rules[t])

Chained == \E v \in Variants : ReadsComputedVariant(v)

PositionInOrder(v) == CHOOSE k \in 1..Len(RuleOrder) : RuleOrder[k] = v

(* every computed variant a rule reads comes before the rule in the order *)
SourcesComeFirst ==
  \A v \in Variants : RuleIsComputed(rules[v]) =>
    \A k \in 1..Len(ParseValue(rules[v].deductionMappings)) :
      LET t == ParseValue(rules[v].deductionMappings)[k].targetVariantId
      IN (t \in Variants /\ RuleIsComputed(rules[t])) => PositionInOrder(t) < PositionInOrder(v)

(* C37: a second reconcile pass right after a first one, every call        *)
(* succeeding and nothing changed in between, writes the same quantity to  *)
(* every variant as the first did, also when one rule's target is the      *)
(* variant another rule computes.                                          *)
C37_SecondPassWritesTheSame ==
  \A i \in RunIds : TwoCleanPasses(i) => SecondPassRepeatsFirst(i)

(* V reads M and is computed before M: the first pass writes 5 to V from   *)
(* M's old quantity and 2 to M, the second writes 2 to V                   *)
C37_Witness ==
  \E i \in RunIds : \E loc \in Locs :
    /\ TwoCleanPasses(i)
    /\ ReadsComputedVariant("V") /\ PositionInOrder("V") < PositionInOrder("M")
    /\ runs[i].pre[<<"iM", loc>>] = 5
    /\ runs[i].post[<<"iV", loc>>] = 5 /\ runs[i].post[<<"iM", loc>>] = 2
    /\ runs[i + 1].post[<<"iV", loc>>] = 2

(* the pass is idempotent when no rule reads a computed variant, and when  *)
(* every computed variant is written before the rules that read it         *)
UnchainedPassIsIdempotent ==
  \A i \in RunIds : (TwoCleanPasses(i) /\ ~Chained) => SecondPassRepeatsFirst(i)

SourcesFirstPassIsIdempotent ==
  \A i \in RunIds : (TwoCleanPasses(i) /\ SourcesComeFirst) => SecondPassRepeatsFirst(i)

ChainedSourcesFirstTwice ==
  \E i \in RunIds :
    /\ TwoCleanPasses(i) /\ Chained /\ SourcesComeFirst
    /\ Len(runs[i].sent) > 0


(***************************************************************************)
(* A rule whose only mapping names the ordered variant itself              *)
(***************************************************************************)
SelfOnlyRule(m) ==
  /\ TheRule # NoRule
  /\ TheRule.deductionMappings = Json(<<Mapping(calc.lineItem.variant_id, m)>>)

(* the same variant under a legacy multiplier rule with multiplier m *)
LegacyTwin(m) ==
  [rules EXCEPT ![calc.lineItem.variant_id] =
     [variantId |-> calc.lineItem.variant_id, deductionMappings |-> NullText,
      calculateInventoryForSelfMapping |-> FALSE,
      type |-> "multiplier", multiplier |-> m, varietyPackFlavorIds |-> NullText]]

SelfFormula(m) == -(calc.lineItem.quantity * (m - 1))

(* C38: for a Shopify-managed line item of quantity q whose rule has the   *)
(* single mapping {the ordered variant, m}, orders/paid consolidates to    *)
(* one delta -(q * (m - 1)) on the variant's own item, the same batch as   *)
(* a legacy multiplier rule with multiplier m gives, and orders/cancelled  *)
(* consolidates to its negation.                                           *)
C38_SelfMappingIsMultiplier ==
  \A m \in 1..MaxMultiplier :
    (Managed /\ IsItem(OwnItem) /\ SelfOnlyRule(m)) =>
      /\ calc.paid.done =>
            /\ ~calc.paid.threw
            /\ UniqueAdjustments(calc.paid.adjustments) = OneOwnDelta(SelfFormula(m))
            /\ UniqueAdjustments(calc.paid.adjustments)
                 = UniqueAdjustments(PaidLineItemAdjustments(calc.lineItem, calc.locationId,
                                                             LegacyTwin(m), calc.lookup))
      /\ calc.cancelled.done =>
            /\ ~calc.cancelled.threw
            /\ UniqueAdjustments(calc.cancelled.adjustments) = OneOwnDelta(-SelfFormula(m))
            /\ UniqueAdjustments(calc.cancelled.adjustments)
                 = UniqueAdjustments(CancelledLineItemAdjustments(calc.lineItem,
                                                                  calc.locationId,
                                                                  LegacyTwin(m), calc.lookup))

(* q = 2 under {V, 3}: -6 and +2 pushed and consolidated to -4 by          *)
(* orders/paid, +6 and -2 to +4 by orders/cancelled                        *)
C38_Witness ==
  /\ Managed /\ IsItem(OwnItem) /\ SelfOnlyRule(3)
  /\ calc.lineItem.quantity = 2
  /\ calc.paid.done /\ calc.cancelled.done
  /\ calc.paid.adjustments = <<Adj(OwnItem, calc.locationId, -6), Adj(OwnItem, calc.locationId, 2)>>
  /\ UniqueAdjustments(calc.paid.adjustments) = OneOwnDelta(-4)
  /\ UniqueAdjustments(calc.cancelled.adjustments) = OneOwnDelta(4)

(* with multiplier 1 the two pushed deltas cancel: one entry, delta 0 *)
SelfMappingOfOneChangesNothing ==
  /\ Managed /\ IsItem(OwnItem) /\ SelfOnlyRule(1)
  /\ calc.paid.done
  /\ UniqueAdjustments(calc.paid.adjustments) = OneOwnDelta(0)


(***************************************************************************)
(* Shop isolation                                                          *)
(***************************************************************************)
RunsOf(shop) == {i \in RunIds : runs[i].shop = shop}
KeysOf(shop) == {key \in marker : key[1] = shop}

(* the batch the handler of run i computes from the rules of shop *)
BatchUnder(i, shop) ==
  LET lineItems == payload[<<runs[i].shop, runs[i].orderId>>]
  IN UniqueAdjustments(
       IF runs[i].kind = "paid"
         THEN PaidInventoryAdjustments(lineItems, 1, runs[i].locationId, rules[shop], Catalogue)
         ELSE CancelledInventoryAdjustments(lineItems, 1, runs[i].locationId, rules[shop],
                                            Catalogue))

Processed(i) == Done(i) /\ runs[i].locationId # Null

(* the delta run i applied to cell c of its shop's store *)
RECURSIVE DeltaIn(_, _, _)
DeltaIn(adjustments, k, c) ==
  IF k > Len(adjustments) THEN 0
  ELSE (IF <<adjustments[k].inventoryItemId, adjustments[k].locationId>> = c
          THEN adjustments[k].delta ELSE 0)
       + DeltaIn(adjustments, k + 1, c)

RECURSIVE AppliedTo(_, _, _)
AppliedTo(shop, c, k) ==
  IF k > Len(runs) THEN 0
  ELSE (IF runs[k].shop = shop /\ Processed(k) THEN DeltaIn(runs[k].uniq, 1, c) ELSE 0)
       + AppliedTo(shop, c, k + 1)

(* the cells of shop the reconcile pass does not write *)
SourceCells(shop) ==
  {c \in Cells : \A v \in Variants :
     InventoryItemOf(v) = c[1] => ~RuleIsComputed(rules[shop][v])}

CancelInOtherShopKeepsMarker ==
  /\ Len(runs) = 3
  /\ runs[1].shop = "s1" /\ runs[1].inserted
  /\ runs[2].shop = "s2" /\ runs[2].inserted
  /\ runs[3].shop = "s2" /\ runs[3].kind = "cancelled" /\ runs[3].deleted
  /\ marker = {<<"s1", runs[1].orderId>>}


(***************************************************************************)
(* The ordered bundle variant after orders/paid                            *)
(***************************************************************************)
OrderContains(o, v) == \E k \in 1..Len(payload[o]) : payload[o][k].variant_id = v

(* a rule the pass computes: mappings to other variants only, toggle on *)
RuleWithoutSelfMapping(v) == rules[v] # NoRule /\ RuleIsComputed(rules[v])

(* floor(available(target) / multiplier) for each mapping of v, from the   *)
(* quantities as they are now                                              *)
BundleCountsNow(v, loc) ==
  {qty[<<InventoryItemOf(ParseValue(rules[v].deductionMappings)[k].targetVariantId), loc>>]
     \div ParseValue(rules[v].deductionMappings)[k].multiplier
       : k \in 1..Len(ParseValue(rules[v].deductionMappings))}

MinNow(v, loc) ==
  CHOOSE x \in BundleCountsNow(v, loc) : \A y \in BundleCountsNow(v, loc) : x <= y

(* the last delivery is an orders/paid run for an order containing v that  *)
(* inserted its marker and went through to the response, every remote call *)
(* answering                                                               *)
PaidRunCompleted(i, v) ==
  /\ i = Len(runs)
  /\ runs[i].kind = "paid" /\ Done(i) /\ runs[i].status = 200
  /\ runs[i].inserted
  /\ OrderContains(runs[i].orderId, v)
  /\ runs[i].submitted /\ runs[i].applied
  /\ runs[i].passes = 1 /\ ~runs[i].passFailed

(* C40 (as claimed): after such a run the ordered variant holds, at every  *)
(* active location, the minimum over its mappings of                       *)
(* floor(available(target) / multiplier).                                  *)
C40_EqualsMinOfFloors ==
  \A i \in RunIds : \A v \in Variants :
    (RuleWithoutSelfMapping(v) /\ PaidRunCompleted(i, v)) =>
      \A loc \in ActiveLocationIds : qty[<<InventoryItemOf(v), loc>>] = MinNow(v, loc)

(* C40: after an orders/paid run for an order containing V, V's rule       *)
(* having no self-mapping and the toggle on, every remote call answering   *)
(* and nothing running beside it, V holds at every active location the     *)
(* minimum over its mappings of floor(available(target) / multiplier),     *)
(* and 0 where that minimum is negative; the add-back the handler wrote to *)
(* V is overwritten.                                                       *)
C40_EqualsClampedMinOfFloors ==
  \A i \in RunIds : \A v \in Variants :
    (RuleWithoutSelfMapping(v) /\ PaidRunCompleted(i, v)) =>
      \A loc \in ActiveLocationIds :
        qty[<<InventoryItemOf(v), loc>>] = Max(0, MinNow(v, loc))

(* V x 1 at 5 of everything: A 5 -> 3, B 5 -> 4, V written 6 by the        *)
(* handler's batch and 1 by the pass                                       *)
C40_Witness ==
  \E i \in RunIds :
    /\ RuleWithoutSelfMapping("V") /\ PaidRunCompleted(i, "V")
    /\ runs[i].locationId \in ActiveLocationIds
    /\ \E k \in 1..Len(runs[i].upd) :
          /\ runs[i].upd[k].inventoryItemId = "iV"
          /\ runs[i].uniq[k].delta = 1 /\ runs[i].upd[k].quantity = 6
    /\ qty[<<"iA", runs[i].locationId>>] = 3
    /\ qty[<<"iB", runs[i].locationId>>] = 4
    /\ qty[<<"iV", runs[i].locationId>>] = 1

(* an oversold target at a location the order did not touch: floor(-1 / 2) *)
(* is -1 and the pass writes 0                                             *)
OversoldTargetElsewhere ==
  \E i \in RunIds : \E loc \in ActiveLocationIds :
    /\ RuleWithoutSelfMapping("V") /\ PaidRunCompleted(i, "V")
    /\ loc # runs[i].locationId
    /\ MinNow("V", loc) = -1
    /\ qty[<<"iV", loc>>] = 0

====
